---- MODULE Spec2Model ----
(***************************************************************************)
(* A model of yoko-tool's command engines: the yokolibs engine (YokoBase   *)
(* with its WT310 and WT210 adapters) and the older yokotools engine       *)
(* (PowerMeter with its WT310 adapter), each talking over a line transport *)
(* to a power meter.  A public command() call is one action: argument      *)
(* checks, tweaks, every transport write and read it performs and the      *)
(* status query are all part of it, and what the call did is kept in       *)
(* 'last'.  Python strings are TLA+ strings, so messages and wire requests *)
(* are the literal texts the code builds.                                  *)
(***************************************************************************)
EXTENDS Integers, Sequences, FiniteSets, TLC

VARIABLES
    pmeter,     \* the engine object the caller holds
    dev,        \* the power meter behind the transport
    now,        \* the local clock
    req,        \* the request the caller is about to make, if it is decided
    last,       \* what the most recent command() call did
    transport,  \* the transport object as far as opening and closing it go
    sys,        \* the system under the transport: its answers, the calls made
    threads,    \* where each thread that closes the transport stands
    py          \* the tables of the _yokobase module and the adapters built

evars == <<pmeter, dev, now, req, last>>
hvars == <<transport, sys, threads, py>>
vars == <<pmeter, dev, now, req, last, transport, sys, threads, py>>

----------------------------------------------------------------------------
(* Python strings.                                                         *)

Char(s, i) == SubSeq(s, i, i)

DigitChars == "0123456789"
UpperChars == "ABCDEFGHIJKLMNOPQRSTUVWXYZ"
LowerChars == "abcdefghijklmnopqrstuvwxyz"

IsDigit(c) == \E i \in 1..10 : Char(DigitChars, i) = c
DigitVal(c) == (CHOOSE i \in 1..10 : Char(DigitChars, i) = c) - 1

\* "%d" % n and str(n) of an int.
RECURSIVE IntStr(_)
IntStr(n) ==
    IF n < 0 THEN "-" \o IntStr(-n)
    ELSE IF n < 10 THEN Char(DigitChars, n + 1)
    ELSE IntStr(n \div 10) \o Char(DigitChars, (n % 10) + 1)

startswith(s, p) == Len(s) >= Len(p) /\ SubSeq(s, 1, Len(p)) = p
endswith(s, p) == Len(s) >= Len(p) /\ SubSeq(s, Len(s) - Len(p) + 1, Len(s)) = p

\* 'p in s' for strings.
Contains(s, p) == \E i \in 1..(Len(s) - Len(p) + 1) : SubSeq(s, i, i + Len(p) - 1) = p

\* s.find(c) for a one-character c, 1-based; 0 when absent.
Find(s, c) ==
    IF \E i \in 1..Len(s) : Char(s, i) = c
    THEN CHOOSE i \in 1..Len(s) : Char(s, i) = c /\ \A j \in 1..(i - 1) : Char(s, j) # c
    ELSE 0

\* s.split(c): the list of fields.
RECURSIVE split(_, _)
split(s, c) ==
    LET i == Find(s, c)
    IN  IF i = 0 THEN <<s>>
        ELSE <<SubSeq(s, 1, i - 1)>> \o split(SubSeq(s, i + 1, Len(s)), c)

\* s.split(c, 1): at most two fields.
split1(s, c) ==
    LET i == Find(s, c)
    IN  IF i = 0 THEN <<s>> ELSE <<SubSeq(s, 1, i - 1), SubSeq(s, i + 1, Len(s))>>

LowerChar(c) ==
    IF \E i \in 1..26 : Char(UpperChars, i) = c
    THEN Char(LowerChars, CHOOSE i \in 1..26 : Char(UpperChars, i) = c)
    ELSE c

UpperChar(c) ==
    IF \E i \in 1..26 : Char(LowerChars, i) = c
    THEN Char(UpperChars, CHOOSE i \in 1..26 : Char(LowerChars, i) = c)
    ELSE c

RECURSIVE lower(_)
lower(s) == IF s = "" THEN "" ELSE LowerChar(Char(s, 1)) \o lower(SubSeq(s, 2, Len(s)))

capitalize(s) == IF s = "" THEN "" ELSE UpperChar(Char(s, 1)) \o lower(SubSeq(s, 2, Len(s)))

\* s.lstrip() / s.strip() for the blanks and line ends the code meets.
IsSpace(c) == c \in {" ", "\n", "\t", "\r"}

RECURSIVE lstrip(_)
lstrip(s) == IF s # "" /\ IsSpace(Char(s, 1)) THEN lstrip(SubSeq(s, 2, Len(s))) ELSE s

RECURSIVE rstrip(_)
rstrip(s) == IF s # "" /\ IsSpace(Char(s, Len(s))) THEN rstrip(SubSeq(s, 1, Len(s) - 1)) ELSE s

strip(s) == rstrip(lstrip(s))

AllDigits(s) == s # "" /\ \A i \in 1..Len(s) : IsDigit(Char(s, i))

RECURSIVE DigitsVal(_)
DigitsVal(s) ==
    IF s = "" THEN 0 ELSE DigitsVal(SubSeq(s, 1, Len(s) - 1)) * 10 + DigitVal(Char(s, Len(s)))

\* int(s): [ok |-> FALSE] stands for the ValueError.
ParseDigits(neg, body) ==
    IF AllDigits(body) THEN [ok |-> TRUE, n |-> IF neg THEN 0 - DigitsVal(body) ELSE DigitsVal(body)]
    ELSE [ok |-> FALSE, n |-> 0]

ParseSigned(t) ==
    ParseDigits(startswith(t, "-"),
                IF startswith(t, "-") \/ startswith(t, "+") THEN SubSeq(t, 2, Len(t)) ELSE t)

ParseInt(s) == ParseSigned(strip(s))

\* ", ".join(l) and friends.
RECURSIVE join(_, _)
join(sep, l) ==
    IF l = <<>> THEN ""
    ELSE IF Len(l) = 1 THEN l[1]
    ELSE l[1] \o sep \o join(sep, Tail(l))

RECURSIVE Zeros(_)
Zeros(n) == IF n <= 0 THEN "" ELSE "0" \o Zeros(n - 1)

RECURSIVE Pow10(_)
Pow10(n) == IF n <= 0 THEN 1 ELSE 10 * Pow10(n - 1)

RECURSIVE StripZeros(_)
StripZeros(d) ==
    IF d.m = 0 THEN [m |-> 0, e |-> 0]
    ELSE IF d.m % 10 = 0 THEN StripZeros([m |-> d.m \div 10, e |-> d.e + 1])
    ELSE d

\* float(s) for a decimal literal "[+-]ddd[.ddd][E[+-]dd]": the value is
\* (IF neg THEN -1 ELSE 1) * m * 10^e, kept as an exact decimal.  The
\* literal is taken apart step by step: sign, exponent, fraction.
MakeFloat(neg, digits, fp, exps, ex) ==
    IF AllDigits(digits) /\ ex.ok /\ exps = strip(exps)
    THEN [ok |-> TRUE, neg |-> neg /\ DigitsVal(digits) # 0] @@
         StripZeros([m |-> DigitsVal(digits), e |-> ex.n - Len(fp)])
    ELSE [ok |-> FALSE, neg |-> FALSE, m |-> 0, e |-> 0]

ParseFraction(neg, mant, di, exps) ==
    MakeFloat(neg,
              IF di = 0 THEN mant ELSE SubSeq(mant, 1, di - 1) \o SubSeq(mant, di + 1, Len(mant)),
              IF di = 0 THEN "" ELSE SubSeq(mant, di + 1, Len(mant)),
              exps, ParseInt(exps))

ParseMantissa(neg, mant, exps) == ParseFraction(neg, mant, Find(mant, "."), exps)

ParseExponent(neg, u, ei) ==
    ParseMantissa(neg, IF ei = 0 THEN u ELSE SubSeq(u, 1, ei - 1),
                  IF ei = 0 THEN "0" ELSE SubSeq(u, ei + 1, Len(u)))

ParseUnsigned(neg, u) == ParseExponent(neg, u, IF Find(u, "E") # 0 THEN Find(u, "E") ELSE Find(u, "e"))

ParseSignedFloat(t) ==
    ParseUnsigned(startswith(t, "-"),
                  IF startswith(t, "-") \/ startswith(t, "+") THEN SubSeq(t, 2, Len(t)) ELSE t)

ParseFloat(s) == ParseSignedFloat(strip(s))

\* The decimal digits of a float in positional notation; 'point' says
\* whether an integral value still gets its ".0" (repr) or not ("%g").
\* 'ds' are the digits of the mantissa and 'nd' their number.
PositionalDigits(d, ds, nd, point) ==
    (IF d.neg THEN "-" ELSE "") \o
    (IF d.e >= 0 THEN ds \o Zeros(d.e) \o (IF point THEN ".0" ELSE "")
     ELSE IF nd + d.e > 0
          THEN SubSeq(ds, 1, nd + d.e) \o "." \o SubSeq(ds, nd + d.e + 1, nd)
          ELSE "0." \o Zeros(0 - (nd + d.e)) \o ds)

Positional(d, point) == PositionalDigits(d, IntStr(d.m), Len(IntStr(d.m)), point)

\* 'x' is the decimal exponent and 'ax' its absolute value.
ScientificDigits(d, ds, x, ax) ==
    (IF d.neg THEN "-" ELSE "") \o Char(ds, 1) \o
    (IF Len(ds) > 1 THEN "." \o SubSeq(ds, 2, Len(ds)) ELSE "") \o
    "e" \o (IF x < 0 THEN "-" ELSE "+") \o (IF ax < 10 THEN "0" ELSE "") \o IntStr(ax)

Abs(x) == IF x < 0 THEN 0 - x ELSE x

Scientific(d) ==
    ScientificDigits(d, IntStr(d.m), Len(IntStr(d.m)) - 1 + d.e, Abs(Len(IntStr(d.m)) - 1 + d.e))

\* Round a decimal to at most n significant digits (half up); 'cut' is the
\* number of digits to drop.
RoundCut(d, cut) ==
    IF cut <= 0 THEN d
    ELSE [ok |-> d.ok, neg |-> d.neg] @@
         StripZeros([m |-> (d.m + 5 * Pow10(cut - 1)) \div Pow10(cut), e |-> d.e + cut])

RoundSig(d, n) == RoundCut(d, Len(IntStr(d.m)) - n)

\* "%g" % f
FormatRounded(d) ==
    IF d.m = 0 THEN "0"
    ELSE IF Len(IntStr(d.m)) - 1 + d.e < 0 - 4 \/ Len(IntStr(d.m)) - 1 + d.e >= 6
    THEN Scientific(d) ELSE Positional(d, FALSE)

FormatG(f) == FormatRounded(RoundSig(f, 6))

\* str(f) / repr(f) of a float
FloatRepr(f) ==
    IF f.m = 0 THEN "0.0"
    ELSE IF Len(IntStr(f.m)) - 1 + f.e < 0 - 4 \/ Len(IntStr(f.m)) - 1 + f.e >= 16
    THEN Scientific(f) ELSE Positional(f, TRUE)

----------------------------------------------------------------------------
(* Python values that cross the command() interface: None, str, int,     *)
(* float, list and tuple.  Numbers carry their decimal text in 's'.       *)

PyNone == [t |-> "none", s |-> "", l |-> <<>>]
PyStr(s) == [t |-> "str", s |-> s, l |-> <<>>]
PyInt(n) == [t |-> "int", s |-> IntStr(n), l |-> <<>>]
PyFloat(f) == [t |-> "float", s |-> FloatRepr(f), l |-> <<>>]
PyList(l) == [t |-> "list", s |-> "", l |-> l]
PyTuple(l) == [t |-> "tuple", s |-> "", l |-> l]

\* repr(v) of a scalar
Repr(v) == IF v.t = "str" THEN "'" \o v.s \o "'" ELSE IF v.t = "none" THEN "None" ELSE v.s

ReprAll(l) == [i \in 1..Len(l) |-> Repr(l[i])]

\* str(v)
ToStr(v) ==
    CASE v.t = "none" -> "None"
      [] v.t = "list" -> "[" \o join(", ", ReprAll(v.l)) \o "]"
      [] v.t = "tuple" -> "(" \o join(", ", ReprAll(v.l)) \o (IF Len(v.l) = 1 THEN "," ELSE "") \o ")"
      [] OTHER -> v.s

\* fmt % v for a format with one %s: a tuple operand is the argument list,
\* so it must hold exactly one value; anything else is the single value.
\* [ok |-> FALSE] stands for the TypeError.
Format1(pre, v, post) ==
    IF v.t = "tuple"
    THEN IF Len(v.l) = 1 THEN [ok |-> TRUE, s |-> pre \o ToStr(v.l[1]) \o post]
         ELSE [ok |-> FALSE, s |-> ""]
    ELSE [ok |-> TRUE, s |-> pre \o ToStr(v) \o post]

----------------------------------------------------------------------------
(* The command tables of the yokolibs engine, as the sources declare them.  *)

\* The public command names (the descriptions are not modelled).
COMMANDS ==
  {
    "get-id", "get-current-auto-range", "set-current-auto-range", "get-current-range",
    "set-current-range", "get-voltage-auto-range", "set-voltage-auto-range",
    "get-voltage-range", "set-voltage-range", "get-interval", "set-interval",
    "configure-data-items", "wait-data-update", "read-data", "get-crest-factor",
    "set-crest-factor", "get-smoothing-status", "set-smoothing-status", "get-smoothing-type",
    "set-smoothing-type", "get-smoothing-factor", "set-smoothing-factor",
    "get-integration-mode", "set-integration-mode", "get-integration-state",
    "get-integration-timer", "set-integration-timer", "start-integration", "stop-integration",
    "reset-integration", "get-math", "set-math", "get-remote-mode", "set-remote-mode",
    "get-local-mode", "set-local-mode", "get-wiring-system", "factory-reset", "calibrate",
    "clear", "get-installed-opts", "get-measurement-mode", "set-measurement-mode",
    "get-sync-source", "set-sync-source", "get-hold", "set-hold", "get-max-hold",
    "set-max-hold", "get-line-filter", "set-line-filter", "get-freq-filter", "set-freq-filter"
  }

_RAW_COMMANDS ==
  <<
    <<"get-id", "*IDN?">>, <<"get-installed-opts", "*OPT?">>,
    <<"get-interval", ":SAMP:RATE?">>, <<"set-interval", ":SAMP:RATE">>,
    <<"get-hold", ":SAMP:HOLD?">>, <<"set-hold", ":SAMP:HOLD">>,
    <<"get-integration-mode", ":INTEG:MODE?">>, <<"set-integration-mode", ":INTEG:MODE">>,
    <<"get-integration-timer", ":INTEG:TIM?">>, <<"set-integration-timer", ":INTEG:TIM">>,
    <<"start-integration", ":INTEG:STAR">>, <<"stop-integration", ":INTEG:STOP">>,
    <<"reset-integration", ":INTEG:RES">>, <<"get-math", ":MATH?">>,
    <<"get-remote-mode", ":COMM:REM?">>, <<"set-remote-mode", ":COMM:REM">>,
    <<"get-local-mode", ":COMM:LOCK?">>, <<"set-local-mode", ":COMM:LOCK">>,
    <<"factory-reset", "*RST">>, <<"calibrate", "*CAL?">>,
    <<"get-error-status", ":STAT:ERR?">>, <<"clear", "\n*CLS">>,
    <<"set-verbose-errors", ":STAT:QMES">>, <<"set-headers", ":COMM:HEAD">>,
    <<"set-verbose-mode", ":COMM:VERB">>, <<"get-eesr", ":STAT:EESR?">>
  >>

ON_OFF_CHOICE == <<"on", "off">>

_CHOICES ==
  <<
    [commands |-> <<"get-current-range", "set-current-range">>,
     choices |-> <<"auto", "0.0025", "0.005", "0.01", "0.02", "0.05", "0.1", "0.2", "0.5", "1", "2", "5", "10", "20">>],
    [commands |-> <<"get-voltage-range", "set-voltage-range">>,
     choices |-> <<"7.5", "15", "30", "60", "75", "150", "300", "600">>],
    [commands |-> <<"get-current-auto-range", "set-current-auto-range">>,
     choices |-> ON_OFF_CHOICE],
    [commands |-> <<"get-voltage-auto-range", "set-voltage-auto-range">>,
     choices |-> ON_OFF_CHOICE],
    [commands |-> <<"get-crest-factor", "set-crest-factor">>,
     choices |-> <<"3", "6">>],
    [commands |-> <<"get-interval", "set-interval">>,
     choices |-> <<"0.1", "0.25", "0.5", "1", "2", "5">>],
    [commands |-> <<"get-line-filter", "set-line-filter">>,
     choices |-> ON_OFF_CHOICE],
    [commands |-> <<"get-freq-filter", "set-freq-filter">>,
     choices |-> ON_OFF_CHOICE],
    [commands |-> <<"get-smoothing-status", "set-smoothing-status">>,
     choices |-> ON_OFF_CHOICE],
    [commands |-> <<"get-smoothing-type", "set-smoothing-type">>,
     choices |-> <<"linear", "exponent">>],
    [commands |-> <<"get-smoothing-factor", "set-smoothing-factor">>,
     choices |-> <<"8", "16", "32", "64">>],
    [commands |-> <<"get-integration-mode", "set-integration-mode">>,
     choices |-> <<"normal", "continuous">>],
    [commands |-> <<"get-measurement-mode", "set-measurement-mode">>,
     choices |-> <<"rms", "vmean", "dc">>],
    [commands |-> <<"get-display-digits", "set-display-digits">>,
     choices |-> <<"4", "5">>],
    [commands |-> <<"get-remote-mode", "set-remote-mode">>,
     choices |-> ON_OFF_CHOICE],
    [commands |-> <<"get-local-mode", "set-local-mode">>,
     choices |-> ON_OFF_CHOICE],
    [commands |-> <<"get-verbose-errors", "set-verbose-errors">>,
     choices |-> ON_OFF_CHOICE],
    [commands |-> <<"get-verbose-mode", "set-verbose-mode">>,
     choices |-> ON_OFF_CHOICE],
    [commands |-> <<"get-headers", "set-headers">>,
     choices |-> ON_OFF_CHOICE]
  >>

_DATA_ITEMS ==
  <<"V", "I", "P", "S", "Q", "Lambda", "Phi", "Fv", "Fi", "Wh", "Whp", "Whm", "Ah", "Ahp", "Ahm",
    "Vmax", "Imax", "Time", "Math">>

_VDATA_ITEMS == <<"T", "J">>

_MATH_NAMES == <<"cfv", "cfi", "add", "sub", "mul", "div", "diva", "divb", "avw">>

\* The bit names in bit order: bit k (from 0) is _EESR_BITS[k + 1].
_EESR_BITS ==
  <<"upd", "itg", "itm", "ovrs", "fov", "str", "ovr1", "pov1", "poa1", "ovr2", "pov2", "poa2",
    "ovr3", "pov3", "poa3">>

\* <<command, key, tweak functions in order>>
_TWEAKS ==
  <<
    <<"get-voltage-auto-range", "response-tweaks", <<"on_off_tweak">>>>,
    <<"get-current-auto-range", "response-tweaks", <<"on_off_tweak">>>>,
    <<"get-hold", "response-tweaks", <<"on_off_tweak">>>>,
    <<"get-max-hold", "response-tweaks", <<"on_off_tweak">>>>,
    <<"get-line-filter", "response-tweaks", <<"on_off_tweak">>>>,
    <<"get-freq-filter", "response-tweaks", <<"on_off_tweak">>>>,
    <<"get-smoothing-status", "response-tweaks", <<"on_off_tweak">>>>,
    <<"get-sync-source", "response-tweaks", <<"to_lower_tweak">>>>,
    <<"get-measurement-mode", "response-tweaks", <<"to_lower_tweak">>>>,
    <<"get-remote-mode", "response-tweaks", <<"on_off_tweak">>>>,
    <<"get-local-mode", "response-tweaks", <<"on_off_tweak">>>>,
    <<"get-voltage-range", "response-tweaks", <<"_float_to_str_tweak">>>>,
    <<"get-current-range", "response-tweaks", <<"_float_to_str_tweak">>>>,
    <<"get-interval", "response-tweaks", <<"_float_to_str_tweak">>>>,
    <<"calibrate", "response-tweaks", <<"_success_failure_tweak">>>>,
    <<"get-integration-mode", "response-tweaks", <<"to_lower_tweak">>>>,
    <<"get-integration-timer", "response-tweaks", <<"_csv_to_seconds_tweak">>>>,
    <<"set-integration-timer", "input-tweaks", <<"_seconds_to_csv_tweak">>>>
  >>

_MAX_DATA_ITEMS == 10
_ELEMENTS_COUNT == 1

_WT310_DATA_ITEMS == <<"Vmin", "Imin", "Pmax", "Pmin", "Vrange", "Irange">>

_MATH_NAMES_WITH_ELEMENTS == {"cfv", "cfi", "avw"}

WT310_DITT ==
  <<
    <<"V", "U">>, <<"Fv", "Fu">>, <<"Vmax", "Uppeak">>, <<"Vmin", "Umpeak">>,
    <<"Imax", "Ippeak">>, <<"Imin", "Impeak">>, <<"Pmax", "Pppeak">>, <<"Pmin", "Pmpeak">>,
    <<"Vrange", "Urange">>
  >>

WT310_RAW_COMMANDS ==
  <<
    <<"get-line-filter", ":INP:FILT:LINE?">>, <<"set-line-filter", ":INP:FILT:LINE">>,
    <<"get-freq-filter", ":INP:FILT:FREQ?">>, <<"set-freq-filter", ":INP:FILT:FREQ">>,
    <<"get-max-hold", ":MEAS:MHOL?">>, <<"set-max-hold", ":MEAS:MHOL">>,
    <<"get-current-auto-range", ":INP:CURR:AUTO?">>,
    <<"set-current-auto-range", ":INP:CURR:AUTO">>, <<"get-current-range", ":INP:CURR:RANG?">>,
    <<"set-current-range", ":INP:CURR:RANG">>, <<"get-voltage-auto-range", ":INP:VOLT:AUTO?">>,
    <<"set-voltage-auto-range", ":INP:VOLT:AUTO">>, <<"get-voltage-range", ":INP:VOLT:RANG?">>,
    <<"set-voltage-range", ":INP:VOLT:RANG">>, <<"get-keys-locking", ":SYST:KLOC?">>,
    <<"set-keys-locking", ":SYST:KLOC">>, <<"get-measurement-mode", ":INP:MODE?">>,
    <<"set-measurement-mode", ":INP:MODE">>, <<"get-sync-source", ":INP:SYNC?">>,
    <<"set-sync-source", ":INP:SYNC">>, <<"get-crest-factor", ":INP:CFAC?">>,
    <<"set-crest-factor", ":INP:CFAC">>, <<"get-wiring-system", ":INP:WIR?">>,
    <<"get-smoothing-status", ":MEAS:AVER:STATE?">>,
    <<"set-smoothing-status", ":MEAS:AVER:STATE">>,
    <<"get-smoothing-type", ":MEAS:AVER:TYPE?">>, <<"set-smoothing-type", ":MEAS:AVER:TYPE">>,
    <<"get-smoothing-factor", ":MEAS:AVER:COUN?">>,
    <<"set-smoothing-factor", ":MEAS:AVER:COUN">>, <<"get-integration-state", ":INTEG:STAT?">>,
    <<"set-math", ":MATH">>, <<"set-compat-mode", ":SYST:COMM:COMM">>,
    <<"get-data-format", ":NUM:FORM?">>, <<"set-data-format", ":NUM:FORM">>,
    <<"get-data-items-count", ":NUM:NORM:NUM?">>, <<"set-data-items-count", ":NUM:NORM:NUM">>,
    <<"read-data", ":NUM:NORM:VAL?">>
  >>

WT310_CHOICES ==
  <<
    [commands |-> <<"get-integration-state">>,
     choices |-> <<"start", "stop", "reset", "timeup", "error">>],
    [commands |-> <<"get-data-format", "set-data-format">>,
     choices |-> <<"ascii", "float">>],
    [commands |-> <<"get-keys-locking", "set-keys-locking">>,
     choices |-> ON_OFF_CHOICE],
    [commands |-> <<"get-compat-mode", "set-compat-mode">>,
     choices |-> <<"WT200", "WT300">>]
  >>

WT310_TWEAKS ==
  <<
    <<"get-smoothing-type", "response-tweaks", <<"to_lower_tweak">>>>,
    <<"get-integration-state", "response-tweaks", <<"to_lower_tweak">>>>,
    <<"get-keys-locking", "response-tweaks", <<"on_off_tweak">>>>,
    <<"get-data-format", "response-tweaks", <<"to_lower_tweak">>>>,
    <<"get-math", "response-tweaks", <<"to_lower_tweak", "_math_response_tweak">>>>,
    <<"set-math", "input-tweaks", <<"to_lower_tweak", "_math_input_tweak">>>>
  >>

WT210_MAX_DATA_ITEMS == 19

WT210_DITT ==
  <<
    <<"I", "A">>, <<"P", "W">>, <<"S", "Va">>, <<"Q", "Var">>, <<"Lambda", "PF">>,
    <<"Phi", "Degree">>, <<"Fv", "VHz">>, <<"Fi", "AHz">>, <<"Vmax", "Vpk">>, <<"Imax", "Apk">>
  >>

WT210_RAW_COMMANDS ==
  <<
    <<"get-line-filter", ":CONF:LFILT?">>, <<"set-line-filter", ":CONF:LFILT">>,
    <<"get-freq-filter", ":CONF:FILT?">>, <<"set-freq-filter", ":CONF:FILT">>,
    <<"get-max-hold", ":CONF:MHOL?">>, <<"set-max-hold", ":CONF:MHOL">>,
    <<"get-current-auto-range", ":CONF:CURR:AUTO?">>,
    <<"set-current-auto-range", ":CONF:CURR:AUTO">>,
    <<"get-current-range", ":CONF:CURR:RANG?">>, <<"set-current-range", ":CONF:CURR:RANG">>,
    <<"get-voltage-auto-range", ":CONF:VOLT:AUTO?">>,
    <<"set-voltage-auto-range", ":CONF:VOLT:AUTO">>,
    <<"get-voltage-range", ":CONF:VOLT:RANG?">>, <<"set-voltage-range", ":CONF:VOLT:RANG">>,
    <<"get-measurement-mode", ":CONF:MODE?">>, <<"set-measurement-mode", ":CONF:MODE">>,
    <<"get-sync-source", ":CONF:SYNC?">>, <<"set-sync-source", ":CONF:SYNC">>,
    <<"get-crest-factor", ":CONF:CFAC?">>, <<"set-crest-factor", ":CONF:CFAC">>,
    <<"get-wiring-system", ":CONF:WIR?">>, <<"get-smoothing-status", ":CONF:AVER:STAT?">>,
    <<"set-smoothing-status", ":CONF:AVER:STAT">>,
    <<"get-smoothing-type", ":CONF:AVER:TYPE?">>, <<"set-smoothing", ":CONF:AVER:TYPE">>,
    <<"get-smoothing-factor", ":CONF:AVER:TYPE?">>, <<"set-math-type", ":MATH:TYPE">>,
    <<"set-math-cfac", ":MATH:CFAC">>, <<"set-math-aver", ":MATH:AVER">>,
    <<"set-math-arit", ":MATH:ARIT">>, <<"read-data", ":MEAS:VAL?">>
  >>

WT210_CHOICES ==
  <<
    [commands |-> <<"get-integration-state">>,
     choices |-> <<"start or stop", "reset">>]
  >>

\* split_0 and split_1 name the two lambdas x.split(",")[0] and x.split(",")[1].
WT210_TWEAKS ==
  <<
    <<"get-smoothing-type", "response-tweaks", <<"to_lower_tweak", "split_0">>>>,
    <<"get-smoothing-factor", "response-tweaks", <<"to_lower_tweak", "split_1">>>>,
    <<"get-math", "response-tweaks", <<"_math_response_tweak">>>>
  >>

----------------------------------------------------------------------------
(* The tables an adapter instance resolves at construction.  'kind' is     *)
(* "wt310" or "wt210".  A dict built from a sequence of <<key, value>>     *)
(* pairs keeps the value of the last pair with that key.                   *)

Range(f) == {f[i] : i \in DOMAIN f}
Keys(pairs) == {p[1] : p \in Range(pairs)}
Lookup(pairs, k) ==
    pairs[CHOOSE i \in DOMAIN pairs :
            pairs[i][1] = k /\ \A j \in DOMAIN pairs : pairs[j][1] = k => j <= i][2]

\* self._data_items and self._ditt
_populate_data_items(kind) ==
    [items |-> _DATA_ITEMS \o (IF kind = "wt310" THEN _WT310_DATA_ITEMS ELSE <<>>) \o _VDATA_ITEMS,
     htop |-> IF kind = "wt310" THEN WT310_DITT ELSE WT210_DITT,
     ptoh |-> LET d == IF kind = "wt310" THEN WT310_DITT ELSE WT210_DITT
              IN  [i \in DOMAIN d |-> <<d[i][2], d[i][1]>>]]

\* <<cmd_part, get_cmd, set_cmd>> for each data item command of the adapter
_iter_data_item_commands(kind) ==
    IF kind = "wt310"
    THEN [num \in 1.._MAX_DATA_ITEMS |->
            <<IntStr(num), "get-data-item" \o IntStr(num), "set-data-item" \o IntStr(num)>>]
    ELSE LET items == _populate_data_items(kind).items
         IN  [i \in DOMAIN items |->
                <<items[i], "get-data-item-" \o items[i], "set-data-item-" \o items[i]>>]

\* The <<cmd, raw-cmd>> pairs in the order the constructor stores them,
\* the EESR commands of _populate_raw_commands_post included.
_populate_raw_commands(kind) ==
    LET it == _iter_data_item_commands(kind)
        dd == _populate_data_items(kind)
        part(i) == IF kind = "wt310" THEN it[i][1]
                   ELSE IF it[i][1] \in Keys(dd.htop) THEN Lookup(dd.htop, it[i][1]) ELSE it[i][1]
        pre == IF kind = "wt310" THEN ":NUM:NORM:ITEM" ELSE ":MEAS:ITEM:"
        gets == [i \in DOMAIN it |-> <<it[i][2], pre \o part(i) \o "?">>]
        sets == [i \in DOMAIN it |-> <<it[i][3], pre \o part(i)>>]
        filt == [b \in DOMAIN _EESR_BITS |->
                    <<"set-eesr-filter-" \o _EESR_BITS[b], ":STAT:FILT" \o IntStr(b)>>]
        wait == [b \in DOMAIN _EESR_BITS |->
                    <<"eesr-wait-" \o _EESR_BITS[b], ":COMM:WAIT " \o IntStr(b)>>]
    IN  _RAW_COMMANDS \o (IF kind = "wt310" THEN WT310_RAW_COMMANDS ELSE WT210_RAW_COMMANDS)
            \o gets \o sets \o filt \o wait

\* The <<cmd, handler>> pairs registered with _add_command_func.
_add_command_func(kind) ==
    (IF kind = "wt310"
     THEN << <<"configure-data-items", "_configure_data_items_cmd">> >>
     ELSE << <<"configure-data-items", "_configure_data_items_cmd">>,
             <<"set-smoothing-type", "_set_smoothing_cmd">>,
             <<"set-smoothing-factor", "_set_smoothing_cmd">>,
             <<"get-integration-state", "_get_integration_state_cmd">>,
             <<"set-math", "_set_math_cmd">> >>)
    \o << <<"wait-data-update", "_wait_data_update_cmd">>,
          <<"get-current-range", "_get_range_cmd">>,
          <<"set-current-range", "_set_range_cmd">>,
          <<"get-voltage-range", "_get_range_cmd">>,
          <<"set-voltage-range", "_set_range_cmd">>,
          <<"start-integration", "_start_integration_cmd">> >>

\* The <<cmd, key, tweaks>> triples in the order _populate_tweaks stores them.
_populate_tweaks(kind) ==
    LET it == _iter_data_item_commands(kind)
    IN  _TWEAKS \o (IF kind = "wt310" THEN WT310_TWEAKS ELSE WT210_TWEAKS)
            \o << <<"read-data", "response-tweaks", <<"_get_data_tweak">> >> >>
            \o [i \in DOMAIN it |-> <<it[i][2], "response-tweaks",
                    <<"_first_data_element_tweak", "_to_lower_capitalize_tweak", "_ptoh_tweak">> >>]
            \o [i \in DOMAIN it |-> <<it[i][3], "input-tweaks",
                    <<"_to_lower_capitalize_tweak", "_htop_tweak">> >>]

\* The <<cmd, verify-arg function>> pairs; the WT310 adapter overrides the
\* base method without calling it.
_populate_arg_verify_funcs(kind) ==
    IF kind = "wt310"
    THEN << <<"set-data-items-count", "_verify_data_items_count">>,
            <<"set-math", "_verify_math_name">> >>
    ELSE << <<"set-integration-timer", "_verify_integration_time">> >>

\* dict.get(k, default) on a sequence of pairs
Get(pairs, k, default) == IF k \in Keys(pairs) THEN Lookup(pairs, k) ELSE default

\* The tweaks the triples 'tw' leave under 'key' of command 'cmd'.
TweaksOf(tw, cmd, key) ==
    LET hits == {i \in DOMAIN tw : tw[i][1] = cmd /\ tw[i][2] = key}
    IN  IF hits = {} THEN <<>>
        ELSE tw[CHOOSE i \in hits : \A j \in hits : j <= i][3]

\* A descriptor that has no command return a response
CommandInfo_silent(raw, func, resp, itw, rtw, verify) ==
    [raw |-> raw, func |-> func, has_response |-> FALSE, has_argument |-> TRUE,
     itw |-> itw, rtw |-> rtw, verify |-> verify]

\* One descriptor; 'resp' says whether the command returns a response.
CommandInfo(raw, func, resp, itw, rtw, verify) ==
    [raw |-> raw, func |-> func, has_response |-> resp, has_argument |-> ~resp,
     itw |-> itw, rtw |-> rtw, verify |-> verify]

\* self._commands: the private descriptors.  raw = "" stands for a raw-cmd
\* of None, func = "" and verify = "" for an absent key.
CommandsTable(raws, funcs, tw, vf) ==
    [cmd \in Keys(raws) \cup Keys(funcs) |->
        CommandInfo(Get(raws, cmd, ""), Get(funcs, cmd, ""),
                    startswith(cmd, "get-") \/ endswith(Get(raws, cmd, ""), "?"),
                    TweaksOf(tw, cmd, "input-tweaks"), TweaksOf(tw, cmd, "response-tweaks"),
                    Get(vf, cmd, ""))]

_commands_of(kind) ==
    CommandsTable(_populate_raw_commands(kind), _add_command_func(kind), _populate_tweaks(kind),
                  _populate_arg_verify_funcs(kind))

\* self.commands: the public names with their "choices" (<<>> for None).
_populate_choices(kind) ==
    LET names == COMMANDS \cup (IF kind = "wt310"
                    THEN {"get-integration-state", "get-keys-locking", "set-keys-locking"} ELSE {})
        infos == _CHOICES \o (IF kind = "wt310" THEN WT310_CHOICES ELSE WT210_CHOICES)
        items == _populate_data_items(kind).items
        hits(cmd) == {i \in DOMAIN infos : cmd \in Range(infos[i].commands)}
    IN  [cmd \in names |->
            IF cmd \in {"read-data", "configure-data-items"} THEN items
            ELSE IF cmd \in {"get-math", "set-math"} THEN _MATH_NAMES
            ELSE IF hits(cmd) = {} THEN <<>>
            ELSE infos[CHOOSE i \in hits(cmd) : \A j \in hits(cmd) : j <= i].choices]


----------------------------------------------------------------------------
(* Results of engine code: a returned value or a raised exception.         *)

Ok(v) == [exc |-> "", msg |-> "", v |-> v]
Raise(e, m) == [exc |-> e, msg |-> m, v |-> PyNone]

\* re.search(r"([^\d]*)(\d+)$", s): the trailing run of digits (from 'ds')
\* and the run of non-digits right before it (from 'ns').
MatchGroups(s, ns, ds) == [ok |-> TRUE, g1 |-> SubSeq(s, ns, ds - 1), g2 |-> SubSeq(s, ds, Len(s))]

MatchNonDigits(s, ds) ==
    MatchGroups(s, CHOOSE i \in 1..ds :
                        /\ \A j \in i..(ds - 1) : ~IsDigit(Char(s, j))
                        /\ (i = 1 \/ IsDigit(Char(s, i - 1))), ds)

MatchTrailingDigits(s) ==
    IF s = "" \/ ~IsDigit(Char(s, Len(s))) THEN [ok |-> FALSE, g1 |-> "", g2 |-> ""]
    ELSE MatchNonDigits(s, CHOOSE i \in 1..Len(s) :
                                /\ \A j \in i..Len(s) : IsDigit(Char(s, j))
                                /\ (i = 1 \/ ~IsDigit(Char(s, i - 1))))

\* The tweak functions of _yokobase.py.
on_off_tweak(value) == IF value = "0" THEN "off" ELSE "on"
_success_failure_tweak(value) == IF value = "0" THEN "success" ELSE "failure"
_first_data_element_tweak(value) ==
    IF endswith(value, ",1") THEN SubSeq(value, 1, Len(value) - 2) ELSE value

\* "%g" % f of the float 'f' of the value
FloatToStr(value, f) ==
    IF f.ok THEN Ok(PyStr(FormatG(f)))
    ELSE Raise("ValueError", "could not convert string to float: '" \o value \o "'")

\* the value as the meter sent it
_float_to_str_tweak_raw(value) == Ok(PyStr(value))

_float_to_str_tweak(value) == FloatToStr(value, ParseFloat(value))

\* The seconds of the first n of the fields hours, minutes, seconds.
RECURSIVE SecondsOf(_, _)
SecondsOf(items, n) == IF n = 0 THEN 0 ELSE SecondsOf(items, n - 1) * 60 + ParseInt(items[n]).n

CsvToSeconds(items) ==
    IF \A i \in DOMAIN items : ParseInt(items[i]).ok
    THEN Ok(PyStr(IntStr(SecondsOf(items, Len(items)))))
    ELSE Raise("ValueError", "invalid literal for int() with base 10")

_csv_to_seconds_tweak(value) == CsvToSeconds(split(value, ","))

\* 'p' is int(value)
SecondsToCsv(value, p) ==
    IF p.ok
    THEN Ok(PyStr(IntStr((p.n \div 60) \div 60) \o "," \o IntStr((p.n \div 60) % 60) \o ","
                  \o IntStr(p.n % 60)))
    ELSE Raise("ValueError", "invalid literal for int() with base 10: '" \o value \o "'")

_seconds_to_csv_tweak(value) == SecondsToCsv(value, ParseInt(value))

\* The math tweaks of _wt310.py.
CfuToCfv(v) == IF startswith(v, "cfu") THEN "cfv" \o SubSeq(v, 4, Len(v)) ELSE v
CfvToCfu(v) == IF startswith(v, "cfv") THEN "cfu" \o SubSeq(v, 4, Len(v)) ELSE v
WithoutElement(value, m) == IF m.ok THEN m.g1 ELSE value

WT310_math_response_tweak(value) == CfuToCfv(WithoutElement(value, MatchTrailingDigits(value)))

_math_input_tweak(value) ==
    CfvToCfu(IF value \in _MATH_NAMES_WITH_ELEMENTS THEN value \o "1" ELSE value)

\* The math tweak of _wt210.py; 'parts' are the fields of the response.
WT210_math_function(value, parts) ==
    IF parts[1] = "ARITHMETIC"
    THEN IF Len(parts) > 1 THEN Ok(PyStr(lower(parts[2])))
         ELSE Raise("IndexError", "list index out of range")
    ELSE IF Len(parts) < 2 THEN Raise("IndexError", "list index out of range")
    ELSE IF parts[2] = "A,1" THEN Ok(PyStr("cfi"))
    ELSE IF parts[2] = "V,1" THEN Ok(PyStr("cfv"))
    ELSE IF parts[2] = "W,1" THEN Ok(PyStr("avw"))
    ELSE Raise("Error", "unknown power meter math function '" \o value \o "'")

WT210_math_response_tweak(value) == WT210_math_function(value, split(value, ";"))

\* is_in_range(value, start, stop) for a Python value; 'p' is int(value)
InRange(value, p, start, stop) ==
    value.t \in {"str", "int"} /\ p.ok /\ p.n >= start /\ p.n <= stop

is_in_range(value, start, stop) == InRange(value, ParseInt(value.s), start, stop)

_verify_integration_time(value) == is_in_range(value, 0, 10000 * 60 * 60)
_verify_data_items_count(item) == is_in_range(item, 1, _MAX_DATA_ITEMS)

\* 'm' is the match of the trailing element number
VerifyMathName(name, m) ==
    /\ name.t = "str"
    /\ m.ok => is_in_range(PyStr(m.g2), 1, _ELEMENTS_COUNT) /\ m.g1 \in _MATH_NAMES_WITH_ELEMENTS
    /\ WithoutElement(name.s, m) \in Range(_MATH_NAMES)

_verify_math_name(name) == VerifyMathName(name, MatchTrailingDigits(name.s))

\* _cmd_to_str(cmd, arg): "%s %s" % (cmd, arg), or cmd alone
_cmd_to_str(cmd, arg) == IF arg.t # "none" THEN cmd \o " " \o ToStr(arg) ELSE cmd

----------------------------------------------------------------------------
(* The power meter at the other end of the transport.  It keeps the        *)
(* integration state, the crest factor, the inputs in auto range, the      *)
(* update interval, the trigger of the "upd" bit of its event register,    *)
(* the numeric items it returns (a WT310: the quantity in each slot and    *)
(* the number of slots in use; a WT210: the quantities switched on), its   *)
(* error register and the replies not read yet.  Settings that no          *)
(* modelled decision depends on are accepted and answer queries with a     *)
(* fixed legal reply.  'family' is "wt310" or "wt210".                     *)

INTEG_STATES == {"reset", "start", "stop", "timeup", "error"}

\* Status codes of the device that the engine has no entry for: a start
\* refused after the timer ran out, a parameter error, and a further one.
DevCode(what) == CASE what = "start" -> 841 [] what = "parameter" -> 102 [] OTHER -> 846

DevErrorText(code) ==
    CASE code = 0 -> "No error"
      [] code = 813 -> "Not allowed during integration"
      [] code = 842 -> "Integration already started"
      [] code = 844 -> "Integration not started"
      [] code = 845 -> "Integration in progress"
      [] code = 841 -> "Integration time has reached its maximum"
      [] OTHER -> "Syntax error"

\* The reply to ":STAT:ERR?" with verbose error messages on.
DevStatusReply(code) == IntStr(code) \o ",\"" \o DevErrorText(code) \o "\""

\* The head of a request line: the text up to the first blank, and the
\* argument: the text after it.
HeadOf(l) == IF Find(l, " ") = 0 THEN l ELSE SubSeq(l, 1, Find(l, " ") - 1)
ArgOf(l) == IF Find(l, " ") = 0 THEN "" ELSE SubSeq(l, Find(l, " ") + 1, Len(l))
DevHead(line) == HeadOf(lstrip(line))
DevArg(line) == ArgOf(lstrip(line))

\* Settings the meter refuses while integration is not in the reset state.
DevGuarded ==
    {":INP:FILT:LINE", ":INP:FILT:FREQ", ":INP:MODE", ":SAMP:RATE", ":RATE", "*CAL?", ":INP:CFAC",
     ":INTEG:MODE", ":INTEG:TIM", ":CONF:LFILT", ":CONF:FILT", ":CONF:MODE", ":CONF:CFAC"}

\* The value the meter measures for a quantity, by its protocol name.
DevQuantity(name) ==
    CASE name \in {"U", "V"} -> "230.0E+00"
      [] name \in {"I", "A"} -> "500.0E-03"
      [] name \in {"P", "W"} -> "10.00E+00"
      [] OTHER -> "1.000E+00"

\* The values of a list of quantities, as one line.
DevValues(names) ==
    IF names = <<>> THEN DevQuantity("") ELSE join(",", [i \in DOMAIN names |-> DevQuantity(names[i])])

\* The quantities a WT210 returns: those switched on, in its own order.
DevOrder ==
    <<"V", "A", "W", "Va", "Var", "PF", "Degree", "VHz", "AHz", "Wh", "Whp", "Whm", "Ah", "Ahp",
      "Ahm", "Vpk", "Apk", "Time", "Math", "Vmin", "Imin", "Pmax", "Pmin", "Vrange", "Irange">>
DevSwitchedOn(d) == SelectSeq(DevOrder, LAMBDA name : (":MEAS:ITEM:" \o name) \in d.on)

\* The update interval as the meter reports it.
DevRateReply(rate) ==
    CASE rate = "0.1" -> "100.0E-03"
      [] rate = "0.25" -> "250.0E-03"
      [] rate = "0.5" -> "500.0E-03"
      [] rate = "1" -> "1.000E+00"
      [] rate = "2" -> "2.000E+00"
      [] OTHER -> "5.000E+00"

DevRates == {"0.1", "0.25", "0.5", "1", "2", "5"}
\* The quantity of an item argument such as "U,1"
HeadOfItem(arg) == IF Find(arg, ",") = 0 THEN arg ELSE SubSeq(arg, 1, Find(arg, ",") - 1)

\* The input a range command is about, and the number of an item slot.
DevInput(head) == IF Contains(head, ":CURR:") THEN "CURR" ELSE "VOLT"
DevSlot(head) == ParseInt(SubSeq(head, Len(":NUM:NORM:ITEM") + 1, Len(head) - (IF endswith(head, "?") THEN 1 ELSE 0)))

\* The identification of a meter of a family; 'idn' of a meter is OwnId for
\* a meter of the family the adapter is for, else what it identifies as.
\* 'stat' is OwnId for a meter that reports its status as the manual has
\* it, else what it answers to every status query.
OwnId == "*"
DevId(family) == IF family = "wt310" THEN "YOKOGAWA,WT310,0,F1.03" ELSE "YOKOGAWA,760401,0,F1.03"

\* The ranges of the meter, in amperes or volts, and how it reports each.
DevRanges ==
    << <<"0.0025", "2.5E-03">>, <<"0.005", "5.0E-03">>, <<"0.01", "10.0E-03">>,
       <<"0.02", "20.0E-03">>, <<"0.05", "50.0E-03">>, <<"0.1", "100.0E-03">>,
       <<"0.2", "200.0E-03">>, <<"0.5", "500.0E-03">>, <<"1", "1.0E+00">>, <<"2", "2.0E+00">>,
       <<"5", "5.0E+00">>, <<"10", "10.0E+00">>, <<"20", "20.0E+00">>, <<"7.5", "7.5E+00">>,
       <<"15", "15.0E+00">>, <<"30", "30.0E+00">>, <<"60", "60.0E+00">>, <<"75", "75.0E+00">>,
       <<"150", "150.0E+00">>, <<"300", "300.0E+00">>, <<"600", "600.0E+00">> >>
DevRangeReply(range) == DevRanges[CHOOSE i \in DOMAIN DevRanges : DevRanges[i][1] = range][2]

\* The reply to a query.
DevReply(d, family, head) ==
    CASE head = "*IDN?" -> IF d.idn = OwnId THEN DevId(family) ELSE d.idn
      [] head = ":INTEG:STAT?" ->
            (CASE d.integ = "reset" -> "RESET" [] d.integ = "start" -> "START"
               [] d.integ = "stop" -> "STOP" [] d.integ = "timeup" -> "TIMEUP"
               [] OTHER -> "ERROR")
      [] head \in {":INP:CFAC?", ":CONF:CFAC?"} -> d.crest
      [] head \in {":INP:CURR:RANG?", ":CONF:CURR:RANG?", ":INP:VOLT:RANG?", ":CONF:VOLT:RANG?"} ->
            DevRangeReply(d.range[DevInput(head)])
      [] head \in {":SAMP:RATE?", ":RATE?"} -> DevRateReply(d.rate)
      [] head \in {":INP:CURR:AUTO?", ":INP:VOLT:AUTO?", ":CONF:CURR:AUTO?", ":CONF:VOLT:AUTO?"} ->
            IF DevInput(head) \in d.auto THEN "1" ELSE "0"
      [] head \in {":INP:MODE?", ":CONF:MODE?"} -> "RMS"
      [] head \in {":INP:SYNC?", ":CONF:SYNC?"} -> "VOLTAGE"
      [] head \in {":INP:WIR?", ":CONF:WIR?"} -> "P1W2"
      [] head = ":INTEG:MODE?" -> "NORMAL"
      [] head = ":INTEG:TIM?" -> d.timer
      [] head = ":MATH?" -> IF family = "wt310" THEN "CFU1" ELSE "ARITHMETIC;ADD"
      [] head = ":MEAS:AVER:TYPE?" -> "LINEAR"
      [] head = ":CONF:AVER:TYPE?" -> "LINEAR,8"
      [] head = ":MEAS:AVER:COUN?" -> "8"
      [] head = ":NUM:FORM?" -> "ASCII"
      [] head = ":NUM:NORM:NUM?" -> IntStr(d.nitems)
      [] head = ":NUM:NORM:VAL?" -> DevValues(SubSeq(d.slots, 1, d.nitems))
      [] head = ":MEAS:VAL?" -> DevValues(DevSwitchedOn(d))
      [] head = ":SYST:RES?" -> "5"
      [] head = "*OPT?" -> "C1"
      [] startswith(head, ":NUM:NORM:ITEM") ->
            IF DevSlot(head).ok /\ DevSlot(head).n \in DOMAIN d.slots
            THEN d.slots[DevSlot(head).n] \o ",1" ELSE "U,1"
      [] OTHER -> "0"

\* The meter takes one request: 'head' with argument 'arg'.  'fault' is a
\* status code the meter raises on this request for reasons of its own
\* (0: none); a request that fails changes no setting.  'answered' is the
\* meter with the reply to a query queued, 'count' the argument as a number.
DevFail(d, code) == [d EXCEPT !.err = code]

\* The integration timers the meter takes: hours, minutes and seconds up
\* to 10000 hours.
DevTimer(hms) ==
    /\ Len(hms) = 3
    /\ \A i \in DOMAIN hms : ParseInt(hms[i]).ok /\ ParseInt(hms[i]).n >= 0
    /\ ParseInt(hms[1]).n <= 10000 /\ ParseInt(hms[2]).n <= 59 /\ ParseInt(hms[3]).n <= 59
    /\ ParseInt(hms[1]).n = 10000 => hms[2] = "0" /\ hms[3] = "0"

DevRequest(d, head, arg, count, fault, answered) ==
    IF head = ":STAT:ERR?"
    THEN [d EXCEPT !.outq = Append(@, IF d.stat = OwnId THEN DevStatusReply(d.err) ELSE d.stat),
                   !.err = 0]
    ELSE IF head = "*CLS" THEN [d EXCEPT !.outq = <<>>, !.err = fault]
    ELSE IF fault # 0 THEN [answered EXCEPT !.err = fault]
    ELSE IF head \in DevGuarded /\ d.integ # "reset" THEN [answered EXCEPT !.err = 813]
    ELSE IF head = ":INTEG:STAR"
         THEN IF d.integ \in {"reset", "stop"} THEN [d EXCEPT !.integ = "start"]
              ELSE IF d.integ = "start" THEN DevFail(d, 842) ELSE DevFail(d, DevCode("start"))
    ELSE IF head = ":INTEG:STOP"
         THEN IF d.integ = "start" THEN [d EXCEPT !.integ = "stop"] ELSE DevFail(d, 844)
    ELSE IF head = ":INTEG:RES"
         THEN IF d.integ = "start" THEN DevFail(d, 845) ELSE [d EXCEPT !.integ = "reset"]
    ELSE IF head \in {":INP:CFAC", ":CONF:CFAC"}
         THEN IF arg \in {"3", "6"} THEN [d EXCEPT !.crest = arg]
              ELSE DevFail(d, DevCode("parameter"))
    ELSE IF head = ":INTEG:TIM"
         THEN IF DevTimer(split(arg, ",")) THEN [d EXCEPT !.timer = arg]
              ELSE DevFail(d, DevCode("parameter"))
    ELSE IF head = ":NUM:NORM:NUM"
         THEN IF count.ok /\ count.n \in 1.._MAX_DATA_ITEMS
              THEN [d EXCEPT !.nitems = count.n] ELSE DevFail(d, DevCode("parameter"))
    ELSE IF startswith(head, ":MEAS:ITEM:") /\ ~endswith(head, "?")
         THEN IF lower(arg) \in {"on", "1"} THEN [d EXCEPT !.on = @ \cup {head}]
              ELSE [d EXCEPT !.on = @ \ {head}]
    ELSE IF head \in {":INP:CURR:AUTO", ":INP:VOLT:AUTO", ":CONF:CURR:AUTO", ":CONF:VOLT:AUTO"}
         THEN IF lower(arg) \in {"on", "1"} THEN [d EXCEPT !.auto = @ \cup {DevInput(head)}]
              ELSE IF lower(arg) \in {"off", "0"} THEN [d EXCEPT !.auto = @ \ {DevInput(head)}]
              ELSE DevFail(d, DevCode("parameter"))
    ELSE IF head \in {":INP:CURR:RANG", ":INP:VOLT:RANG", ":CONF:CURR:RANG", ":CONF:VOLT:RANG"}
         THEN IF \E i \in DOMAIN DevRanges : DevRanges[i][1] = arg
              THEN [d EXCEPT !.auto = @ \ {DevInput(head)}, !.range[DevInput(head)] = arg]
              ELSE DevFail(d, DevCode("parameter"))
    ELSE IF head \in {":SAMP:RATE", ":RATE"}
         THEN IF arg \in DevRates THEN [d EXCEPT !.rate = arg] ELSE DevFail(d, DevCode("parameter"))
    ELSE IF head = ":STAT:FILT1" THEN [d EXCEPT !.filt = lower(arg)]
    ELSE IF startswith(head, ":NUM:NORM:ITEM") /\ ~endswith(head, "?")
         THEN IF DevSlot(head).ok /\ DevSlot(head).n \in DOMAIN d.slots
              THEN [d EXCEPT !.slots[DevSlot(head).n] = HeadOfItem(arg)]
              ELSE DevFail(d, DevCode("parameter"))
    ELSE IF head = "*RST" THEN [d EXCEPT !.integ = "reset", !.crest = "3"]
    ELSE answered

DevAnswered(d, family, head) ==
    IF endswith(head, "?") THEN [d EXCEPT !.outq = Append(@, DevReply(d, family, head))] ELSE d

\* The meter takes one request line.
DevWrite(d, family, line, fault) ==
    DevRequest(d, DevHead(line), DevArg(line), ParseInt(DevArg(line)), fault,
               DevAnswered(d, family, DevHead(line)))

----------------------------------------------------------------------------
(* The yokolibs engine.  A call runs in a world 'w': the engine object,    *)
(* the meter, the fault the meter will raise on the next request, the      *)
(* local clock and the trace of what the call did so far.  Every           *)
(* operation returns a result: a value or an exception, and the world it   *)
(* leaves.  Trace events: "check" (the argument checks of command()),      *)
(* "in" and "out" (the input and response tweak chains), "W <line>"        *)
(* (a line written to the transport), "R <line>" (a line read from it)     *)
(* and "R" (a read that timed out).                                        *)

Family(eng) == IF eng.kind = "wt210" THEN "wt210" ELSE "wt310"

Return(w, v) == [exc |-> "", msg |-> "", v |-> v, w |-> w]
Throw(w, e, m) == [exc |-> e, msg |-> m, v |-> PyNone, w |-> w]
\* run 'next' on the result of a step that did not raise
Then(r, next(_)) == IF r.exc # "" THEN r ELSE next(r)
Log(w, ev) == [w EXCEPT !.trace = Append(@, ev)]

\* The link between the transport and the meter.  'at' counts the transport
\* operations (lines written and lines read) down to the one that fails, 0
\* for a link that does not fail.  A write that fails delivers nothing to
\* the meter.  A read that fails has 'late' say what becomes of the reply it
\* was for: it arrives after the failure and waits in the buffer of the
\* transport, or it is lost.
NoLink == [at |-> 0, late |-> FALSE]
Failing(w) == w.link.at = 1
Passed(w) == [w EXCEPT !.link.at = IF @ > 0 THEN @ - 1 ELSE 0]

\* Transport.writeline, readline and queryline: a read with no reply
\* pending ends in the transport's timeout error.  The fault of the meter
\* waits for the first request that is no status query; a clear can raise
\* it only on a meter whose output is still unread (the "interrupted"
\* error that _init_pmeter expects of its first clear).
\* Trace events of a failing link: "X <line>" for a line that could not be
\* written, "R" for a read that failed.
Transmit(w, line, isreq) ==
    IF Failing(w)
    THEN Throw(Passed(Log(w, "X " \o line)), "TransportError", "error while writing to device")
    ELSE Return([Passed(Log(w, "W " \o line)) EXCEPT
                    !.dev = DevWrite(w.dev, Family(w.eng), line, IF isreq THEN w.fault ELSE 0),
                    !.fault = IF isreq THEN 0 ELSE @], PyNone)

writeline(w, line) ==
    Transmit(w, line, DevHead(line) # ":STAT:ERR?" /\ (DevHead(line) = "*CLS" => w.dev.outq # <<>>))

readline(w) ==
    IF Failing(w)
    THEN Throw([Passed(Log(w, "R")) EXCEPT
                    !.dev.outq = IF w.link.late \/ @ = <<>> THEN @ ELSE Tail(@)],
               "TransportError", "error while reading from device")
    ELSE IF w.dev.outq = <<>> THEN Throw(Passed(Log(w, "R")), "TransportError", "read timed out")
    ELSE Return([Passed(Log(w, "R " \o Head(w.dev.outq))) EXCEPT !.dev.outq = Tail(@)],
                PyStr(Head(w.dev.outq)))

queryline(w, line) == Then(writeline(w, line), LAMBDA r : readline(r.w))

\* _ERROR_CODES_MAP after _populate_errors_map_map: code -> message, or
\* code -> resolver function (func # "").
_ERROR_CODES_MAP ==
    (813 :> [msg |-> "operation is not allowed during integration, please reset integration first",
             func |-> ""])
    @@ [code \in {842, 844, 845} |-> [msg |-> "", func |-> "_integration_error_handler"]]

\* A resolver that takes every code for handled
_integration_error_handler_silent(cmd, arg, code, rawmsg) == PyNone

_integration_error_handler(cmd, arg, code, rawmsg) ==
    IF code = 845
    THEN PyStr("current integration state is 'start' and it cannot be changed to 'reset', "
               \o "please stop it first")
    ELSE IF code = 842 THEN PyStr("integration is already in the 'start' state")
    ELSE IF code = 844
    THEN PyStr("cannot stop integration because it is not in the 'start' state, please "
               \o "start it first")
    ELSE PyStr("")

\* Calling the resolver an error map entry names.  Besides the engine's own
\* resolver an entry may name a resolver that handles the condition
\* (returns None) or one that returns a message of its own.
ResolverText == "handled by a resolver"
CallResolver(func, cmd, arg, code, rawmsg) ==
    CASE func = "_integration_error_handler" -> _integration_error_handler(cmd, arg, code, rawmsg)
      [] func = "returns_none" -> PyNone
      [] OTHER -> PyStr(ResolverText)

\* 'not v' for None and strings
Falsy(v) == v.t = "none" \/ (v.t = "str" /\ v.s = "")

\* _check_error_status returns None (no error, or the error was handled) or
\* the error message.  Its steps, last first: the verdict on what a resolver
\* returned, on the status code, on the reply, and the status query.
\* The message without the status text
_check_error_status_failed_bare(w, cmd, arg, msg) ==
    Return(w, PyStr("command '" \o _cmd_to_str(cmd, arg) \o "' failed"))

_check_error_status_failed(w, cmd, arg, msg) ==
    Return(w, PyStr("command '" \o _cmd_to_str(cmd, arg) \o "' failed:\n" \o msg))

\* The resolver's answer ignored: the raw status text, always an error
_check_error_status_unresolved(w, cmd, arg, response, msg) ==
    _check_error_status_failed(w, cmd, arg, response)

_check_error_status_resolved(w, cmd, arg, response, msg) ==
    IF Falsy(msg) THEN Return(w, PyNone)
    ELSE IF msg = PyStr("") THEN _check_error_status_failed(w, cmd, arg, response)
    ELSE _check_error_status_failed(w, cmd, arg, msg.s)

_check_error_status_code(w, cmd, arg, response, parts, code) ==
    IF ~code.ok THEN Throw(w, "ValueError", "invalid literal for int() with base 10")
    ELSE IF code.n = 0 THEN Return(w, PyNone)
    ELSE IF code.n \in DOMAIN w.eng.errors_map
    THEN IF w.eng.errors_map[code.n].func # ""
         THEN _check_error_status_resolved(w, cmd, arg, response,
                    CallResolver(w.eng.errors_map[code.n].func, cmd, arg, code.n, parts[2]))
         ELSE _check_error_status_failed(w, cmd, arg, w.eng.errors_map[code.n].msg)
    ELSE _check_error_status_failed(w, cmd, arg, response)

_check_error_status_reply(q, status_cmd, cmd, arg, parts) ==
    IF q.exc # ""
    THEN Throw(q.w, q.exc, "failed to check error status of command '" \o _cmd_to_str(cmd, arg)
                    \o "':\n" \o q.msg \o "\nRaw command was '" \o status_cmd \o "'")
    ELSE IF Len(parts) < 2
    THEN Throw(q.w, "ErrorBadResponse", "unexpected power meter response '" \o q.v.s
                    \o "' to the '" \o status_cmd \o "' command")
    ELSE _check_error_status_code(q.w, cmd, arg, q.v.s, parts, ParseInt(parts[1]))

_check_error_status_query(q, status_cmd, cmd, arg) ==
    _check_error_status_reply(q, status_cmd, cmd, arg, split1(q.v.s, ","))

_check_error_status(w, cmd, arg) ==
    _check_error_status_query(queryline(w, w.commands["get-error-status"].raw),
                              w.commands["get-error-status"].raw, cmd, arg)

\* The classes 'except Error' of the _exceptions module catches.
IsError(exc) == exc \in {"Error", "ErrorBadArgument", "ErrorBadResponse"}

\* s.replace(old, new) for an 'old' that occurs at most once
Replace(s, old, new) ==
    IF ~Contains(s, old) THEN s
    ELSE LET i == CHOOSE i \in 1..Len(s) : SubSeq(s, i, i + Len(old) - 1) = old
         IN  SubSeq(s, 1, i - 1) \o new \o SubSeq(s, i + Len(old), Len(s))

\* Whether a parsed float is at least 9.9E37, the meter's "no data" value.
\* 'digits' are the digits of the mantissa, 'sciexp' the decimal exponent.
IsNoDataDigits(f, digits, sciexp) ==
    ~f.neg /\ f.m > 0 /\ (sciexp > 37 \/ (sciexp = 37 /\ DigitsVal(SubSeq(digits \o "0", 1, 2)) >= 99))

IsNoData(f) == IsNoDataDigits(f, IntStr(f.m), Len(IntStr(f.m)) + f.e - 1)

\* The index a dictionary of item indexes gives an item: 0-based, -1 absent.
IndexOf(l, item) == IF item \in Range(l) THEN (CHOOSE i \in DOMAIN l : l[i] = item) - 1 ELSE -1

\* self._item_indexes[item], "J" being read as "P"
DataItemIndex(w, item) == IndexOf(w.eng.item_indexes.l, IF item = "J" THEN "P" ELSE item)

\* str(power * interval) for the product 'joules' of the two mantissas
JoulesText(power, iv, joules) ==
    FloatRepr([ok |-> TRUE, neg |-> power.neg # iv.neg /\ joules.m # 0, m |-> joules.m, e |-> joules.e])

JoulesRepr(power, iv) ==
    JoulesText(power, iv, StripZeros([m |-> power.m * iv.m, e |-> power.e + iv.e]))

\* The time stamp taken from a clock that runs down
DataItemValue_countdown(w, response, item, joules) ==
    IF item = "T" THEN FloatRepr([ok |-> TRUE, neg |-> FALSE, m |-> 1000 - w.now, e |-> 0])
    ELSE IF item = "J" THEN joules
    ELSE response[DataItemIndex(w, item) + 1]

\* The value of one requested item: the time stamp, the energy, or the
\* physical item the meter returned.
DataItemValue(w, response, item, joules) ==
    IF item = "T" THEN FloatRepr([ok |-> TRUE, neg |-> FALSE, m |-> w.now, e |-> 0])
    ELSE IF item = "J" THEN joules
    ELSE response[DataItemIndex(w, item) + 1]

\* YokoBase._get_data_tweak: the values of the configured items in request
\* order, the virtual items injected.  'response' is a list of strings,
\* 'items' the items to read, 'phys' the positions of those the meter
\* returns and 'power' the float of the "P" item.
Base_get_data_tweak_values(w, response, items, power) ==
    IF "J" \in Range(items) /\ ~power.ok
    THEN Raise("ValueError", "could not convert string to float")
    ELSE IF "J" \in Range(items) /\ ~w.eng.interval.set
    THEN Raise("TypeError", "unsupported operand type(s) for *: 'float' and 'NoneType'")
    ELSE Ok(PyList([i \in DOMAIN items |->
                PyStr(DataItemValue(w, response, items[i], JoulesRepr(power, w.eng.interval.f)))]))

Base_get_data_tweak_items(w, response, items, phys) ==
    IF ~w.eng.items_to_read.set
    THEN Raise("TypeError", "'NoneType' object is not iterable")
    ELSE IF phys # {} /\ ~w.eng.item_indexes.set
    THEN Raise("TypeError", "'NoneType' object is not subscriptable")
    ELSE IF \E i \in phys : DataItemIndex(w, items[i]) < 0
    THEN Raise("KeyError", "the data item has no index")
    ELSE IF \E i \in phys : DataItemIndex(w, items[i]) >= Len(response)
    THEN Raise("IndexError", "list index out of range")
    ELSE Base_get_data_tweak_values(w, response, items,
                                    ParseFloat(response[DataItemIndex(w, "J") + 1]))

Base_get_data_tweak(w, response) ==
    Base_get_data_tweak_items(w, response, w.eng.items_to_read.l,
                              {i \in DOMAIN w.eng.items_to_read.l : w.eng.items_to_read.l[i] # "T"})

\* str(float(v)) of each value; the WT210 adapter turns "no data" into nan.
DataStrings(kind, parsed) ==
    [i \in DOMAIN parsed |->
        IF kind = "wt210" /\ IsNoData(parsed[i]) THEN "nan" ELSE FloatRepr(parsed[i])]

\* WT210._get_data_tweak: the meter returns the items it has switched on in
\* its own order; 'strs' are their values, 'toread' the items asked for.
\* The result is the list handed to YokoBase._get_data_tweak, in 'v'.
WT210_get_data_tweak(w, strs, toread) ==
    IF ~w.eng.wt210_items_to_read.set
    THEN Raise("TypeError", "'NoneType' object is not iterable")
    ELSE IF \E i \in DOMAIN toread : IndexOf(w.eng.wt210_item_indexes.l, toread[i]) < 0
    THEN Raise("KeyError", "the data item has no index")
    ELSE IF \E i \in DOMAIN toread : IndexOf(w.eng.wt210_item_indexes.l, toread[i]) >= Len(strs)
    THEN Raise("IndexError", "list index out of range")
    ELSE Ok([i \in DOMAIN toread |-> strs[IndexOf(w.eng.wt210_item_indexes.l, toread[i]) + 1]])

_get_data_tweak_super(w, r) == IF r.exc # "" THEN r ELSE Base_get_data_tweak(w, r.v)

_get_data_tweak_strs(w, strs) ==
    _get_data_tweak_super(w, IF w.eng.kind # "wt210" THEN Ok(strs)
                             ELSE WT210_get_data_tweak(w, strs, w.eng.wt210_items_to_read.l))

_get_data_tweak_parsed(w, parsed) ==
    IF \E i \in DOMAIN parsed : ~parsed[i].ok
    THEN Raise("ValueError", "could not convert string to float")
    ELSE _get_data_tweak_strs(w, DataStrings(w.eng.kind, parsed))

ParseFloats(raw) == [i \in DOMAIN raw |-> ParseFloat(raw[i])]

\* WT310._get_data_tweak and WT210._get_data_tweak
_get_data_tweak(w, response) == _get_data_tweak_parsed(w, ParseFloats(split(response, ",")))

\* value.split(",")[n] for n = 0, 1
SplitField(parts, n) ==
    IF Len(parts) > n THEN Ok(PyStr(parts[n + 1])) ELSE Raise("IndexError", "list index out of range")

\* One tweak function applied to a value.
tweak_func(w, name, value) ==
    IF value.t # "str"
    THEN IF name \in {"on_off_tweak", "_success_failure_tweak"}
         THEN Ok(PyStr(IF name = "on_off_tweak" THEN "on" ELSE "failure"))
         ELSE Raise(IF name \in {"_seconds_to_csv_tweak", "_float_to_str_tweak", "_math_input_tweak"}
                    THEN "TypeError" ELSE "AttributeError", "the value is not a string")
    ELSE CASE name = "on_off_tweak" -> Ok(PyStr(on_off_tweak(value.s)))
           [] name = "to_lower_tweak" -> Ok(PyStr(lower(value.s)))
           [] name = "_to_lower_capitalize_tweak" -> Ok(PyStr(capitalize(value.s)))
           [] name = "_float_to_str_tweak" -> _float_to_str_tweak(value.s)
           [] name = "_success_failure_tweak" -> Ok(PyStr(_success_failure_tweak(value.s)))
           [] name = "_csv_to_seconds_tweak" -> _csv_to_seconds_tweak(value.s)
           [] name = "_seconds_to_csv_tweak" -> _seconds_to_csv_tweak(value.s)
           [] name = "_first_data_element_tweak" -> Ok(PyStr(_first_data_element_tweak(value.s)))
           [] name = "_htop_tweak" ->
                Ok(PyStr(Get(_populate_data_items(w.eng.kind).htop, value.s, value.s)))
           [] name = "_ptoh_tweak" ->
                Ok(PyStr(Get(_populate_data_items(w.eng.kind).ptoh, value.s, value.s)))
           [] name = "_math_input_tweak" -> Ok(PyStr(_math_input_tweak(value.s)))
           [] name = "_math_response_tweak" ->
                IF w.eng.kind = "wt210" THEN WT210_math_response_tweak(value.s)
                ELSE Ok(PyStr(WT310_math_response_tweak(value.s)))
           [] name \in {"split_0", "split_1"} ->
                SplitField(split(value.s, ","), IF name = "split_0" THEN 0 ELSE 1)
           [] name = "_get_data_tweak" -> _get_data_tweak(w, value.s)
           [] OTHER -> Ok(value)

\* A chain of tweaks applied in order; an exception ends the chain.
RECURSIVE ApplyTweaks(_, _, _)
ApplyRest(w, names, r) == IF r.exc # "" THEN r ELSE ApplyTweaks(w, names, r.v)

ApplyTweaks(w, names, value) ==
    IF names = <<>> THEN Ok(value)
    ELSE ApplyRest(w, Tail(names), tweak_func(w, Head(names), value))

\* The result 'r' of a pure step as the result of an engine step in 'w'.
In(w, r) == [exc |-> r.exc, msg |-> r.msg, v |-> r.v, w |-> w]

_apply_response_tweaks(w, cmd, response) ==
    In(Log(w, "out"), ApplyTweaks(w, w.commands[cmd].rtw, response))

_apply_input_tweaks(w, cmd, arg) ==
    In(Log(w, "in"), ApplyTweaks(w, w.commands[cmd].itw, arg))

ErrorBadArgument(w, cmd, arg) ==
    Throw(w, "ErrorBadArgument",
          "unacceptable argument '" \o ToStr(arg) \o "' for command '" \o cmd \o "'")

\* What the verify-arg function 'func' of a command says about 'arg'.
VerifyArg(func, arg) ==
    CASE func = "" -> TRUE
      [] func = "_verify_integration_time" -> _verify_integration_time(arg)
      [] func = "_verify_data_items_count" -> _verify_data_items_count(arg)
      [] OTHER -> _verify_math_name(arg)

\* 'choices' are the valid arguments, 'badelts' the positions of the
\* elements of a list argument that are not among them.
_verify_argument_choices(w, cmd, arg, choices, func, badelts) ==
    IF choices # {} /\ arg.t \in {"list", "tuple"} /\ badelts # {}
    THEN ErrorBadArgument(w, cmd, arg.l[CHOOSE i \in badelts : \A j \in badelts : i <= j])
    ELSE IF choices # {} /\ arg.t \notin {"list", "tuple"} /\ (arg.t # "str" \/ arg.s \notin choices)
    THEN ErrorBadArgument(w, cmd, arg)
    ELSE IF func = "_verify_math_name" /\ arg.t \notin {"str", "none"}
    THEN Throw(w, "TypeError", "expected string or bytes-like object")
    ELSE IF ~VerifyArg(func, arg) THEN ErrorBadArgument(w, cmd, arg)
    ELSE Return(w, PyNone)

\* _verify_argument without the test against the choices
_verify_argument_no_choices(w, cmd, arg) ==
    _verify_argument_choices(w, cmd, arg, {}, w.commands[cmd].verify, {})

\* Whether 'arg' is valid for the public command 'cmd'.
_verify_argument(w, cmd, arg) ==
    _verify_argument_choices(w, cmd, arg, Range(w.choices[cmd]), w.commands[cmd].verify,
                             {i \in DOMAIN arg.l : arg.l[i].s \notin Range(w.choices[cmd])})

----------------------------------------------------------------------------
(* Commands of the yokolibs engine.                                        *)

\* A transport failure re-raised as the plain error of the engine
Reraise_plain(r, pre, raw_cmd) ==
    Throw(r.w, "Error", pre \o ":\n" \o r.msg \o "\nRaw command was '" \o raw_cmd \o "'")

\* What a transport failure is re-raised as: same class, longer message.
Reraise(r, pre, raw_cmd) ==
    Throw(r.w, r.exc, pre \o ":\n" \o r.msg \o "\nRaw command was '" \o raw_cmd \o "'")

\* The elements a 'for' loop takes from a string or a list.
Elems(v) == IF v.t = "str" THEN [i \in 1..Len(v.s) |-> SubSeq(v.s, i, i)]
            ELSE [i \in DOMAIN v.l |-> v.l[i].s]

RECURSIVE Dedup(_, _)
Dedup(l, seen) ==
    IF l = <<>> THEN <<>>
    ELSE IF Head(l) \in seen THEN Dedup(Tail(l), seen)
    ELSE <<Head(l)>> \o Dedup(Tail(l), seen \cup {Head(l)})

\* The physical items to read with every repetition kept
_prepare_data_items_to_read_all(items) ==
    SelectSeq([i \in DOMAIN items |-> IF items[i] = "J" THEN "P" ELSE items[i]],
              LAMBDA item : item \notin Range(_VDATA_ITEMS))

\* The physical items to read, each once, "J" read as "P".
_prepare_data_items_to_read(items) ==
    Dedup([i \in DOMAIN items |-> IF items[i] = "J" THEN "P" ELSE items[i]], Range(_VDATA_ITEMS))

RECURSIVE _command(_, _, _, _, _)

\* A sequence of <<cmd, arg>> calls of _command, ended by the first that raises.
RECURSIVE RunAll(_, _)
RunAll(w, calls) ==
    IF calls = <<>> THEN Return(w, PyNone)
    ELSE Then(_command(w, Head(calls)[1], Head(calls)[2], TRUE, TRUE),
              LAMBDA r : RunAll(r.w, Tail(calls)))

\* YokoBase._configure_data_items_cmd.  'elems' are the items asked for,
\* 'bad' the positions of the unknown ones, 'phys' the physical items to
\* read and 'f' the float of the interval the meter reported.
Base_configure_data_items_interval(r, phys, f) ==
    IF r.v.t # "str" \/ ~f.ok
    THEN Throw(r.w, "ValueError", "could not convert string to float")
    ELSE Then(_command([r.w EXCEPT !.eng.interval = [set |-> TRUE, f |-> f],
                                   !.eng.item_indexes = [set |-> TRUE, l |-> phys]],
                       "set-eesr-filter-upd", PyStr("fall"), TRUE, TRUE),
              LAMBDA q : Return(q.w, PyList([i \in DOMAIN phys |-> PyStr(phys[i])])))

\* The same with a list of any length let through
Base_configure_data_items_unbounded(w1, items, elems, max, bad, phys) ==
    IF items.t = "none" THEN Throw(w1, "TypeError", "object of type 'NoneType' has no len()")
    ELSE IF bad # {}
    THEN Throw(w1, "ErrorBadArgument",
               "bad data item '" \o elems[CHOOSE i \in bad : \A j \in bad : i <= j] \o "'")
    ELSE Then(_command(w1, "get-interval", PyNone, TRUE, TRUE),
              LAMBDA r : Base_configure_data_items_interval(r, phys, ParseFloat(r.v.s)))

Base_configure_data_items_checked(w1, items, elems, max, bad, phys) ==
    IF items.t = "none" THEN Throw(w1, "TypeError", "object of type 'NoneType' has no len()")
    ELSE IF Len(elems) > max
    THEN Throw(w1, "Error", "too many data items, please, specify at most " \o IntStr(max))
    ELSE IF bad # {}
    THEN Throw(w1, "ErrorBadArgument",
               "bad data item '" \o elems[CHOOSE i \in bad : \A j \in bad : i <= j] \o "'")
    ELSE Then(_command(w1, "get-interval", PyNone, TRUE, TRUE),
              LAMBDA r : Base_configure_data_items_interval(r, phys, ParseFloat(r.v.s)))

Base_configure_data_items_elems(w, items, elems) ==
    Base_configure_data_items_checked(
        [w EXCEPT !.eng.items_to_read = [set |-> items.t # "none", l |-> elems]], items, elems,
        IF w.eng.kind = "wt210" THEN WT210_MAX_DATA_ITEMS ELSE _MAX_DATA_ITEMS,
        {i \in DOMAIN elems : elems[i] \notin Range(_populate_data_items(w.eng.kind).items)},
        _prepare_data_items_to_read(elems))

Base_configure_data_items_cmd(w, items) == Base_configure_data_items_elems(w, items, Elems(items))

\* The adapters' _configure_data_items_cmd.  'phys' are the physical items
\* the base method returned, 'real' all the items the meter has.
WT310_configure_data_items(w, phys) ==
    RunAll(w, << <<"set-data-items-count", PyInt(Len(phys))>> >>
              \o [i \in DOMAIN phys |-> <<"set-data-item" \o IntStr(i), PyStr(phys[i])>>])

WT210_configure_data_items(w, phys, real) ==
    RunAll([w EXCEPT !.eng.wt210_items_to_read = [set |-> TRUE, l |-> phys],
                     !.eng.wt210_item_indexes =
                        [set |-> TRUE, l |-> SelectSeq(real, LAMBDA item : item \in Range(phys))]],
           [i \in DOMAIN real |->
                <<"set-data-item-" \o real[i],
                  PyStr(IF real[i] \in Range(phys) THEN "on" ELSE "off")>>])

_configure_data_items_phys(w, phys) ==
    IF phys = <<>> THEN Return(w, PyNone)
    ELSE IF w.eng.kind # "wt210" THEN WT310_configure_data_items(w, phys)
    ELSE WT210_configure_data_items(w, phys,
            SelectSeq(_populate_data_items(w.eng.kind).items,
                      LAMBDA item : item \notin Range(_VDATA_ITEMS)))

_configure_data_items_cmd(w, cmd, items) ==
    Then(Base_configure_data_items_cmd(w, items),
         LAMBDA r : _configure_data_items_phys(r.w, Elems(r.v)))

\* The wait with the status asked for after both requests
_wait_data_update_cmd_checked(w) ==
    Then(_command(w, "get-eesr", PyNone, TRUE, TRUE),
         LAMBDA r : Then(_command(r.w, "eesr-wait-upd", PyNone, TRUE, TRUE),
                         LAMBDA q : Return(q.w, PyNone)))

\* The wait without the read that clears the register
_wait_data_update_cmd_unread(w) ==
    Then(_command(w, "eesr-wait-upd", PyNone, FALSE, TRUE), LAMBDA q : Return(q.w, PyNone))

_wait_data_update_cmd(w) ==
    Then(_command(w, "get-eesr", PyNone, FALSE, TRUE),
         LAMBDA r : Then(_command(r.w, "eesr-wait-upd", PyNone, FALSE, TRUE),
                         LAMBDA q : Return(q.w, PyNone)))

_get_range_cmd(w, cmd) ==
    Then(_command(w, cmd, PyNone, TRUE, FALSE), LAMBDA r :
        Then(_command(r.w, Replace(cmd, "-range", "-auto-range"), PyNone, TRUE, TRUE), LAMBDA a :
            IF a.v = PyStr("on")
            THEN IF r.v.t = "str" THEN Return(a.w, PyStr(r.v.s \o " (auto)"))
                 ELSE Throw(a.w, "TypeError", "unsupported operand type(s) for +=")
            ELSE Return(a.w, r.v)))

_set_range_cmd(w, cmd, arg) ==
    LET auto_range_cmd == Replace(cmd, "-range", "-auto-range")
        choices == w.choices[cmd]
        lowest == PyStr(choices[2])
        highest == PyStr(choices[Len(choices)])
        what == split(cmd, "-")[2]
        crest_error(r, needed) ==
            Throw(r.w, "Error", what \o " range " \o ToStr(arg) \o " is only available when crest factor is "
                                \o needed \o ", but currently it is " \o ToStr(r.v))
        write(v) == Then(_command(v, cmd, arg, TRUE, FALSE), LAMBDA r : Return(r.w, PyNone))
    IN  IF arg = PyStr("auto")
        THEN Then(_command(w, auto_range_cmd, PyStr("on"), TRUE, TRUE), LAMBDA r : Return(r.w, PyNone))
        ELSE Then(_command(w, auto_range_cmd, PyStr("off"), TRUE, TRUE), LAMBDA o :
                IF arg \in {lowest, highest}
                THEN Then(_command(o.w, "get-crest-factor", PyNone, TRUE, TRUE), LAMBDA r :
                        IF r.v = PyStr("3") /\ arg = lowest THEN crest_error(r, "6")
                        ELSE IF r.v = PyStr("6") /\ arg = highest THEN crest_error(r, "3")
                        ELSE write(r.w))
                ELSE write(o.w))

_start_integration_cmd(w, cmd) ==
    Then(_command(w, cmd, PyNone, TRUE, FALSE), LAMBDA r : Return(r.w, PyNone))

\* The handlers of _wt210.py
_set_math_cmd(w, arg) ==
    RunAll(w, IF arg \in {PyStr("cfi"), PyStr("cfv")}
              THEN << <<"set-math-type", PyStr("CFAC")>>,
                      <<"set-math-cfac", PyStr(IF arg = PyStr("cfi") THEN "A,1" ELSE "V,1")>> >>
              ELSE IF arg = PyStr("avw")
              THEN << <<"set-math-type", PyStr("AVER")>>, <<"set-math-aver", PyStr("W,1")>> >>
              ELSE << <<"set-math-type", PyStr("ARIT")>>, <<"set-math-arit", arg>> >>)

\* The emulation answering "stop" for a probe the meter rejects
_get_integration_state_cmd_stop(w) ==
    Then(_command(w, "get-line-filter", PyNone, TRUE, TRUE), LAMBDA state :
        LET r == _command(state.w, "set-line-filter", state.v, TRUE, TRUE)
        IN  IF IsError(r.exc) THEN Return(r.w, PyStr("stop"))
            ELSE IF r.exc # "" THEN r
            ELSE Return(r.w, PyStr("reset")))

\* The emulation with its two answers swapped
_get_integration_state_cmd_swapped(w) ==
    Then(_command(w, "get-line-filter", PyNone, TRUE, TRUE), LAMBDA state :
        LET r == _command(state.w, "set-line-filter", state.v, TRUE, TRUE)
        IN  IF IsError(r.exc) THEN Return(r.w, PyStr("reset"))
            ELSE IF r.exc # "" THEN r
            ELSE Return(r.w, PyStr("start or stop")))

_get_integration_state_cmd(w) ==
    Then(_command(w, "get-line-filter", PyNone, TRUE, TRUE), LAMBDA state :
        LET r == _command(state.w, "set-line-filter", state.v, TRUE, TRUE)
        IN  IF IsError(r.exc) THEN Return(r.w, PyStr("start or stop"))
            ELSE IF r.exc # "" THEN r
            ELSE Return(r.w, PyStr("reset")))

_set_smoothing_cmd(w, cmd, arg) ==
    LET other == IF cmd = "set-smoothing-type" THEN "get-smoothing-factor" ELSE "get-smoothing-type"
    IN  Then(_command(w, other, PyNone, TRUE, TRUE), LAMBDA r :
            LET typ == IF cmd = "set-smoothing-type" THEN arg ELSE r.v
                factor == IF cmd = "set-smoothing-type" THEN r.v ELSE arg
            IN  Then(_command(r.w, "set-smoothing", PyStr(ToStr(typ) \o "," \o ToStr(factor)), TRUE, TRUE),
                     LAMBDA q : Return(q.w, PyNone)))

\* The wire request of a command with its tweaked argument.
RawCommand(raw, arg) == raw \o (IF arg.t # "none" THEN " " \o ToStr(arg) ELSE "")

\* _command without a handler, last step first: the verdict of the status
\* check 'st', the status check after the response 'resp', the response
\* read as 'rd', the request written as 'wr', and the input tweaks 'a'.
_command_status(resp, st) ==
    IF st.exc # "" THEN st
    ELSE IF ~Falsy(st.v) THEN Throw(st.w, "Error", st.v.s)
    ELSE Return(st.w, resp.v)

\* _command_checked with the status never looked at
_command_unchecked(resp, cmd, arg, check_status) == resp

_command_checked(resp, cmd, arg, check_status) ==
    IF resp.exc # "" \/ ~check_status THEN resp
    ELSE _command_status(resp, _check_error_status(resp.w, cmd, arg))

_command_response(w, cmd, arg, raw_cmd, rd) ==
    IF ~w.commands[cmd].has_response THEN Return(w, PyNone)
    ELSE IF rd.exc # ""
    THEN Reraise(rd, "failed to read power meter response to '" \o _cmd_to_str(cmd, arg) \o "'",
                 raw_cmd)
    ELSE _apply_response_tweaks(rd.w, cmd, rd.v)

_command_written(wr, cmd, arg, raw_cmd, check_status) ==
    IF wr.exc # ""
    THEN Reraise(wr, "failed to write command '" \o cmd \o "' to the power meter", raw_cmd)
    ELSE _command_checked(_command_response(wr.w, cmd, arg, raw_cmd, readline(wr.w)),
                          cmd, arg, check_status)

_command_raw(w, cmd, arg, raw_cmd, check_status) ==
    _command_written(writeline(w, raw_cmd), cmd, arg, raw_cmd, check_status)

_command_wire(a, cmd, check_status) ==
    IF a.exc # "" THEN a
    ELSE IF a.w.commands[cmd].raw = ""
    THEN Throw(a.w, "TypeError", "unsupported operand type(s) for +=")
    ELSE _command_raw(a.w, cmd, a.v, RawCommand(a.w.commands[cmd].raw, a.v), check_status)

\* Execute the command: its handler, or the tweaks, the wire request and
\* the status check.
_command(w, cmd, arg, check_status, func) ==
    IF ~func \/ w.commands[cmd].func = ""
    THEN _command_wire(IF arg.t # "none" THEN _apply_input_tweaks(w, cmd, arg) ELSE Return(w, arg),
                       cmd, check_status)
    ELSE CASE w.commands[cmd].func = "_configure_data_items_cmd" ->
                    _configure_data_items_cmd(w, cmd, arg)
           [] w.commands[cmd].func = "_wait_data_update_cmd" -> _wait_data_update_cmd(w)
           [] w.commands[cmd].func = "_get_range_cmd" -> _get_range_cmd(w, cmd)
           [] w.commands[cmd].func = "_set_range_cmd" -> _set_range_cmd(w, cmd, arg)
           [] w.commands[cmd].func = "_start_integration_cmd" -> _start_integration_cmd(w, cmd)
           [] w.commands[cmd].func = "_set_math_cmd" -> _set_math_cmd(w, arg)
           [] w.commands[cmd].func = "_get_integration_state_cmd" -> _get_integration_state_cmd(w)
           [] OTHER -> _set_smoothing_cmd(w, cmd, arg)

\* str() of what command() does not take as it is: the items of a list
\* that are no strings, and any other argument that is no string.
CoerceArg(arg) ==
    CASE arg.t \in {"none", "str"} -> arg
      [] arg.t = "list" -> PyList([i \in DOMAIN arg.l |->
                                        IF arg.l[i].t = "str" THEN arg.l[i] ELSE PyStr(ToStr(arg.l[i]))])
      [] OTHER -> PyStr(ToStr(arg))

\* YokoBase.command(cmd, arg): 'cmd' and 'arg' are Python values.  'text'
\* is the formatted message about a bad command, 'chk' the result of the
\* argument checks.
command_bad(w, text) ==
    IF text.ok THEN Throw(w, "Error", text.s)
    ELSE Throw(w, "TypeError", "not all arguments converted during string formatting")

\* command_checks with no sanity check for commands without argument
command_checks_no_refusal(w, cmd, arg) ==
    IF w.commands[cmd].has_argument THEN _verify_argument(w, cmd, arg) ELSE Return(w, PyNone)

command_checks(w, cmd, arg) ==
    IF w.commands[cmd].has_argument THEN _verify_argument(w, cmd, arg)
    ELSE IF arg.t # "none"
    THEN Throw(w, "Error", "command '" \o cmd \o "' accepts no arguments, but '"
                           \o ToStr(arg) \o "' was provided")
    ELSE Return(w, PyNone)

command_run(chk, cmd, arg) == IF chk.exc # "" THEN chk ELSE _command(chk.w, cmd, arg, TRUE, TRUE)

command_args(w, cmd, arg) == command_run(command_checks(Log(w, "check"), cmd, arg), cmd, arg)

command(w, cmd, arg) ==
    IF cmd.t # "str" \/ cmd.s \notin DOMAIN w.choices
    THEN command_bad(w, Format1("bad command '", cmd, "'"))
    ELSE IF cmd.s \notin DOMAIN w.commands THEN Throw(w, "KeyError", "'" \o cmd.s \o "'")
    ELSE command_args(w, cmd.s, CoerceArg(arg))

----------------------------------------------------------------------------
(* The yokotools engine: PowerMeter.py and WT310.py of src/yokotools, the  *)
(* older implementation of the same command interface.  Its definitions    *)
(* carry the prefix yt_ where yokolibs has one of the same name.           *)

\* _COMMANDS of PowerMeter.py: <<name, has-response, has-argument>>
yt_COMMANDS ==
  <<
    <<"get-id", TRUE, FALSE>>, <<"get-installed-opts", TRUE, FALSE>>,
    <<"get-measurement-mode", TRUE, FALSE>>, <<"set-measurement-mode", FALSE, TRUE>>,
    <<"get-sync-source", TRUE, FALSE>>, <<"set-sync-source", FALSE, TRUE>>,
    <<"get-current-auto-range", TRUE, FALSE>>, <<"set-current-auto-range", FALSE, TRUE>>,
    <<"get-current-range", TRUE, FALSE>>, <<"set-current-range", FALSE, TRUE>>,
    <<"get-voltage-auto-range", TRUE, FALSE>>, <<"set-voltage-auto-range", FALSE, TRUE>>,
    <<"get-voltage-range", TRUE, FALSE>>, <<"set-voltage-range", FALSE, TRUE>>,
    <<"get-crest-factor", TRUE, FALSE>>, <<"set-crest-factor", FALSE, TRUE>>,
    <<"get-hold", TRUE, FALSE>>, <<"set-hold", FALSE, TRUE>>, <<"get-max-hold", TRUE, FALSE>>,
    <<"set-max-hold", FALSE, TRUE>>, <<"get-keys-locking", TRUE, FALSE>>,
    <<"set-keys-locking", FALSE, TRUE>>, <<"get-interval", TRUE, FALSE>>,
    <<"set-interval", FALSE, TRUE>>, <<"get-line-filter", TRUE, FALSE>>,
    <<"set-line-filter", FALSE, TRUE>>, <<"get-freq-filter", TRUE, FALSE>>,
    <<"set-freq-filter", FALSE, TRUE>>, <<"get-smoothing-status", TRUE, FALSE>>,
    <<"set-smoothing-status", FALSE, TRUE>>, <<"get-smoothing-type", TRUE, FALSE>>,
    <<"set-smoothing-type", FALSE, TRUE>>, <<"get-smoothing-factor", TRUE, FALSE>>,
    <<"set-smoothing-factor", FALSE, TRUE>>, <<"get-integration-state", TRUE, FALSE>>,
    <<"get-integration-mode", TRUE, FALSE>>, <<"set-integration-mode", FALSE, TRUE>>,
    <<"get-integration-timer", TRUE, FALSE>>, <<"set-integration-timer", FALSE, TRUE>>,
    <<"start-integration", FALSE, FALSE>>, <<"stop-integration", FALSE, FALSE>>,
    <<"reset-integration", FALSE, FALSE>>, <<"get-data-format", TRUE, FALSE>>,
    <<"set-data-format", FALSE, TRUE>>, <<"get-data-items-count", TRUE, FALSE>>,
    <<"set-data-items-count", FALSE, TRUE>>, <<"get-data", TRUE, FALSE>>,
    <<"wait-for-data-update", FALSE, FALSE>>, <<"get-math", TRUE, FALSE>>,
    <<"set-math", FALSE, TRUE>>, <<"get-display-digits", TRUE, FALSE>>,
    <<"set-display-digits", FALSE, TRUE>>, <<"get-remote-mode", TRUE, FALSE>>,
    <<"set-remote-mode", FALSE, TRUE>>, <<"get-wiring-system", TRUE, FALSE>>,
    <<"factory-reset", FALSE, FALSE>>, <<"calibrate", TRUE, FALSE>>, <<"clear", FALSE, FALSE>>,
    <<"get-error-status", TRUE, FALSE>>
  >>

\* _WT310_COMMANDS of WT310.py: <<wire command, name>>
yt_WT310_COMMANDS ==
  <<
    <<"*IDN?", "get-id">>, <<"*OPT?", "get-installed-opts">>, <<":RATE?", "get-interval">>,
    <<":RATE", "set-interval">>, <<":INP:FILT:LINE?", "get-line-filter">>,
    <<":INP:FILT:LINE", "set-line-filter">>, <<":INP:FILT:FREQ?", "get-freq-filter">>,
    <<":INP:FILT:FREQ", "set-freq-filter">>, <<":INP:CURR:AUTO?", "get-current-auto-range">>,
    <<":INP:CURR:AUTO", "set-current-auto-range">>, <<":INP:CURR:RANG?", "get-current-range">>,
    <<":INP:CURR:RANG", "set-current-range">>, <<":INP:VOLT:AUTO?", "get-voltage-auto-range">>,
    <<":INP:VOLT:AUTO", "set-voltage-auto-range">>, <<":INP:VOLT:RANG?", "get-voltage-range">>,
    <<":INP:VOLT:RANG", "set-voltage-range">>, <<":HOLD?", "get-hold">>,
    <<":HOLD", "set-hold">>, <<":MEAS:MHOL?", "get-max-hold">>,
    <<":MEAS:MHOL", "set-max-hold">>, <<":SYST:KLOC?", "get-keys-locking">>,
    <<":SYST:KLOC", "set-keys-locking">>, <<":INP:MODE?", "get-measurement-mode">>,
    <<":INP:MODE", "set-measurement-mode">>, <<":INP:SYNC?", "get-sync-source">>,
    <<":INP:SYNC", "set-sync-source">>, <<":INP:CFAC?", "get-crest-factor">>,
    <<":INP:CFAC", "set-crest-factor">>, <<":INP:WIR?", "get-wiring-system">>,
    <<":MEAS:AVER:STATE?", "get-smoothing-status">>,
    <<":MEAS:AVER:STATE", "set-smoothing-status">>,
    <<":MEAS:AVER:TYPE?", "get-smoothing-type">>, <<":MEAS:AVER:TYPE", "set-smoothing-type">>,
    <<":MEAS:AVER:COUN?", "get-smoothing-factor">>,
    <<":MEAS:AVER:COUN", "set-smoothing-factor">>, <<":INTEG:STAT?", "get-integration-state">>,
    <<":INTEG:MODE?", "get-integration-mode">>, <<":INTEG:MODE", "set-integration-mode">>,
    <<":INTEG:TIM?", "get-integration-timer">>, <<":INTEG:TIM", "set-integration-timer">>,
    <<":INTEG:STAR", "start-integration">>, <<":INTEG:STOP", "stop-integration">>,
    <<":INTEG:RES", "reset-integration">>, <<":NUM:FORM?", "get-data-format">>,
    <<":NUM:FORM", "set-data-format">>, <<":NUM:NORM:NUM?", "get-data-items-count">>,
    <<":NUM:NORM:NUM", "set-data-items-count">>, <<":NUM:NORM:VAL?", "get-data">>,
    <<":MATH?", "get-math">>, <<":MATH", "set-math">>, <<":SYST:RES?", "get-display-digits">>,
    <<":SYST:RES", "set-display-digits">>, <<":COMM:REM?", "get-remote-mode">>,
    <<":COMM:REM", "set-remote-mode">>, <<"*RST", "factory-reset">>, <<"*CAL?", "calibrate">>,
    <<":STAT:ERR?", "get-error-status">>, <<"\n*CLS", "clear">>,
    <<":STAT:QMES", "set-verbose-errors">>, <<":COMM:HEAD", "set-headers">>,
    <<":COMM:VERB", "set-verbose-mode">>, <<":SYST:COMM:COMM", "set-compat-mode">>,
    <<":STAT:EESR?", "get-eesr">>
  >>

\* The "assortment" entries of _define_assortments: <<command, choices>>
yt_assortment ==
  <<
    <<"set-current-range", <<"0.005", "0.01", "0.02", "0.05", "0.1", "0.2", "0.5", "1", "2", "5", "10", "20">>>>,
    <<"set-voltage-range", <<"7.5", "15", "30", "60", "75", "150", "300", "600">>>>,
    <<"set-current-auto-range", <<"off", "on">>>>,
    <<"set-voltage-auto-range", <<"off", "on">>>>,
    <<"set-crest-factor", <<"3", "6">>>>,
    <<"set-interval", <<"0.1", "0.25", "0.5", "1", "2", "5">>>>,
    <<"set-line-filter", <<"off", "on">>>>,
    <<"set-freq-filter", <<"off", "on">>>>,
    <<"set-smoothing-status", <<"off", "on">>>>,
    <<"set-smoothing-type", <<"linear", "exponent">>>>,
    <<"set-smoothing-factor", <<"8", "16", "32", "64">>>>,
    <<"set-integration-mode", <<"normal", "continuous">>>>,
    <<"set-data-format", <<"ascii", "float">>>>,
    <<"set-measurement-mode", <<"rms", "vmean", "dc">>>>,
    <<"set-sync-source", <<"voltage", "current", "off">>>>,
    <<"set-hold", <<"off", "on">>>>,
    <<"set-max-hold", <<"off", "on">>>>,
    <<"set-keys-locking", <<"off", "on">>>>,
    <<"set-display-digits", <<"4", "5">>>>,
    <<"set-remote-mode", <<"off", "on">>>>,
    <<"set-compat-mode", <<"WT200", "WT300">>>>,
    <<"set-verbose-errors", <<"off", "on">>>>,
    <<"set-headers", <<"off", "on">>>>,
    <<"set-verbose-mode", <<"off", "on">>>>
  >>

\* The "verify-func" entries of _define_assortments
yt_verify_func ==
    << <<"set-integration-timer", "_verify_integration_time">>,
       <<"set-data-items-count", "_verify_data_items_count">>,
       <<"set-math", "_verify_math_name">> >>
    \o [item \in 1.._MAX_DATA_ITEMS |-> <<"set-data-item" \o IntStr(item), "_verify_data_item_name">>]

yt_ELECTRICAL_QUANTITIES ==
    <<"V", "I", "P", "S", "Q", "Lambda", "Phi", "Fv", "Fi", "Vppeak", "Vmpeak", "Ippeak", "Impeak",
      "Pppeak", "Pmpeak", "Time", "Wh", "Whp", "Whm", "Ah", "Ahp", "Ahm", "Math", "Vrange", "Irange">>

_HUMAN_TO_PROTOCOL_ELEC_QTY ==
    << <<"V", "U">>, <<"Fv", "Fu">>, <<"Vppeak", "Uppeak">>, <<"Vmpeak", "Umpeak">>,
       <<"Vrange", "Urange">> >>

_VALID_MATH_NAMES == <<"cfu", "cfi", "add", "sub", "mul", "div", "diva", "divb", "avw">>
yt_MATH_NAMES_WITH_ELEMENTS == <<"cfu", "cfi", "avw">>

\* _define_tweaks: <<command, key, tweaks>>
yt_TWEAKS ==
    LET on_off == {"get-voltage-auto-range", "get-current-auto-range", "get-hold", "get-max-hold",
                   "get-keys-locking", "get-line-filter", "get-freq-filter", "get-smoothing-status",
                   "get-remote-mode"}
        lowered == {"get-smoothing-type", "get-data-format", "get-sync-source", "get-measurement-mode",
                    "get-integration-state", "get-integration-mode"}
        floats == {"get-voltage-range", "get-current-range", "get-interval"}
    IN  [cmd \in on_off |-> <<"_on_off_tweak">>]
        @@ [cmd \in lowered |-> <<"lower">>]
        @@ [cmd \in floats |-> <<"float">>]
        @@ [cmd \in {"get-data"} |-> <<"_wt310_measurement_data_tweak">>]
        @@ [cmd \in {"get-math"} |-> <<"lower", "_math_response_tweak">>]
        @@ [cmd \in {"set-math"} |-> <<"lower", "_math_input_tweak">>]
        @@ [cmd \in {"calibrate"} |-> <<"_success_failure_tweak">>]
        @@ [cmd \in {"get-integration-timer"} |-> <<"_csv_to_seconds_tweak">>]
        @@ [cmd \in {"set-integration-timer"} |-> <<"_seconds_to_csv_tweak">>]
        @@ [cmd \in {"get-data-item" \o IntStr(i) : i \in 1.._MAX_DATA_ITEMS} |->
                <<"lower_capitalize", "_first_data_element_tweak", "_to_human_notation_tweak">>]
        @@ [cmd \in {"set-data-item" \o IntStr(i) : i \in 1.._MAX_DATA_ITEMS} |->
                <<"lower_capitalize", "_to_protocol_notation_tweak">>]

\* State checks that let reset-integration run after a stop only
yt_state_checks_stopped ==
    [cmd \in {"set-line-filter", "set-freq-filter", "set-measurement-mode", "set-interval",
              "calibrate", "set-crest-factor", "set-integration-mode", "set-integration-timer"}
        |-> <<"reset">>]
    @@ [cmd \in {"start-integration"} |-> <<"reset", "stop">>]
    @@ [cmd \in {"stop-integration"} |-> <<"start">>]
    @@ [cmd \in {"reset-integration"} |-> <<"stop">>]

\* _define_state_checks: command -> the integration states it may run in
yt_state_checks ==
    [cmd \in {"set-line-filter", "set-freq-filter", "set-measurement-mode", "set-interval",
              "calibrate", "set-crest-factor", "set-integration-mode", "set-integration-timer"}
        |-> <<"reset">>]
    @@ [cmd \in {"start-integration"} |-> <<"reset", "stop">>]
    @@ [cmd \in {"stop-integration"} |-> <<"start">>]
    @@ [cmd \in {"reset-integration"} |-> <<"reset", "stop", "timeup", "error">>]

\* self.commands after PowerMeter.__init__: name -> the two flags
yt_commands ==
    LET items == {"get-data-item" \o IntStr(i) : i \in 1.._MAX_DATA_ITEMS}
                 \cup {"set-data-item" \o IntStr(i) : i \in 1.._MAX_DATA_ITEMS}
        flags(cmd) == LET i == CHOOSE i \in DOMAIN yt_COMMANDS : yt_COMMANDS[i][1] = cmd
                      IN  [has_response |-> yt_COMMANDS[i][2], has_argument |-> yt_COMMANDS[i][3]]
    IN  [cmd \in {yt_COMMANDS[i][1] : i \in DOMAIN yt_COMMANDS} |-> flags(cmd)]
        @@ [cmd \in items |-> [has_response |-> startswith(cmd, "get-"),
                               has_argument |-> startswith(cmd, "set-")]]

\* self._command_map after _define_command_map: name -> wire command; the
\* one callable entry is "" here.
yt_command_map ==
    [cmd \in {yt_WT310_COMMANDS[i][2] : i \in DOMAIN yt_WT310_COMMANDS} |->
        yt_WT310_COMMANDS[CHOOSE i \in DOMAIN yt_WT310_COMMANDS : yt_WT310_COMMANDS[i][2] = cmd][1]]
    @@ [cmd \in {"wait-for-data-update"} |-> ""]
    @@ [cmd \in {"get-data-item" \o IntStr(i) : i \in 1.._MAX_DATA_ITEMS} |->
            ":NUM:NORM:ITEM" \o SubSeq(cmd, 14, Len(cmd)) \o "?"]
    @@ [cmd \in {"set-data-item" \o IntStr(i) : i \in 1.._MAX_DATA_ITEMS} |->
            ":NUM:NORM:ITEM" \o SubSeq(cmd, 14, Len(cmd))]
    @@ [cmd \in {"set-eesr-trigger" \o IntStr(b - 1) : b \in 1..Len(_EESR_BITS)} |->
            ":STAT:FILT" \o IntStr(DigitsVal(SubSeq(cmd, 17, Len(cmd))) + 1)]
    @@ [cmd \in {"eesr-wait" \o IntStr(b - 1) : b \in 1..Len(_EESR_BITS)} |->
            ":COMM:WAIT " \o IntStr(DigitsVal(SubSeq(cmd, 10, Len(cmd))) + 1)]

\* The tweaks of WT310.py.  A quantity in the other notation: the column
\* 'col_to' of the row that has 'v' in column 'col_from', or 'v' itself.
yt_notation(v, col_from, col_to) ==
    LET hits == {i \in DOMAIN _HUMAN_TO_PROTOCOL_ELEC_QTY :
                    _HUMAN_TO_PROTOCOL_ELEC_QTY[i][col_from] = v}
    IN  IF hits = {} THEN v ELSE _HUMAN_TO_PROTOCOL_ELEC_QTY[CHOOSE i \in hits : TRUE][col_to]

\* float(v), 'f' being the parsed literal
yt_float(f) ==
    IF f.ok THEN Ok(PyFloat(f)) ELSE Raise("ValueError", "could not convert string to float")

\* _wt310_measurement_data_tweak on the parsed fields of the response
yt_measurement_data(floats) ==
    IF \A i \in DOMAIN floats : floats[i].ok
    THEN Ok(PyStr(join(", ", [i \in DOMAIN floats |-> FloatRepr(floats[i])])))
    ELSE Raise("ValueError", "could not convert string to float")

\* _math_response_tweak, 'm' being the match of the element number
yt_math_response(v, m) ==
    IF m.ok /\ m.g2 = "1" THEN Ok(PyStr(m.g1))
    ELSE IF v \in Range(yt_MATH_NAMES_WITH_ELEMENTS)
    THEN Raise("AttributeError", "'NoneType' object has no attribute 'group'")
    ELSE Ok(PyNone)

\* One tweak applied to a value
yt_tweak_func(name, value) ==
    IF name \in {"_on_off_tweak", "_success_failure_tweak"}
    THEN Ok(PyStr(IF value = PyStr("0")
                  THEN (IF name = "_on_off_tweak" THEN "off" ELSE "success")
                  ELSE (IF name = "_on_off_tweak" THEN "on" ELSE "failure")))
    ELSE IF value.t # "str"
    THEN Raise(IF name \in {"float", "_seconds_to_csv_tweak", "_math_response_tweak"}
               THEN "TypeError" ELSE "AttributeError", "the value is not a string")
    ELSE CASE name = "lower" -> Ok(PyStr(lower(value.s)))
           [] name = "lower_capitalize" -> Ok(PyStr(capitalize(lower(value.s))))
           [] name = "float" -> yt_float(ParseFloat(value.s))
           [] name = "_wt310_measurement_data_tweak" ->
                yt_measurement_data(ParseFloats(split(value.s, ",")))
           [] name = "_first_data_element_tweak" -> Ok(PyStr(_first_data_element_tweak(value.s)))
           [] name = "_to_human_notation_tweak" -> Ok(PyStr(yt_notation(value.s, 2, 1)))
           [] name = "_to_protocol_notation_tweak" -> Ok(PyStr(yt_notation(value.s, 1, 2)))
           [] name = "_csv_to_seconds_tweak" -> _csv_to_seconds_tweak(value.s)
           [] name = "_seconds_to_csv_tweak" -> _seconds_to_csv_tweak(value.s)
           [] name = "_math_response_tweak" ->
                yt_math_response(value.s, MatchTrailingDigits(value.s))
           [] OTHER -> Ok(PyStr(IF value.s \in Range(yt_MATH_NAMES_WITH_ELEMENTS)
                                THEN value.s \o "1" ELSE value.s))

RECURSIVE yt_ApplyTweaks(_, _)
yt_ApplyRest(names, r) == IF r.exc # "" THEN r ELSE yt_ApplyTweaks(names, r.v)

yt_ApplyTweaks(names, value) ==
    IF names = <<>> THEN Ok(value)
    ELSE yt_ApplyRest(Tail(names), yt_tweak_func(Head(names), value))

\* PowerMeter._apply_input_tweaks and _apply_response_tweaks
yt_apply_tweaks(w, cmd, value, ev) ==
    In(Log(w, ev), yt_ApplyTweaks(IF cmd \in DOMAIN yt_TWEAKS THEN yt_TWEAKS[cmd] ELSE <<>>, value))

\* The verification functions of WT310.py, for a string.  'm' is the match
\* of a trailing element number, 'comma' the positions of the commas and
\* 'cut' the position of the last one.
yt_verify_math_name(arg, m) ==
    /\ m.ok => /\ is_in_range(PyStr(m.g2), 1, _ELEMENTS_COUNT)
               /\ m.g1 \in Range(yt_MATH_NAMES_WITH_ELEMENTS)
    /\ WithoutElement(arg, m) \in Range(_VALID_MATH_NAMES)

yt_verify_element(arg, cut) ==
    /\ is_in_range(PyStr(SubSeq(arg, cut + 1, Len(arg))), 1, _ELEMENTS_COUNT)
    /\ SubSeq(arg, 1, cut - 1) \in Range(yt_ELECTRICAL_QUANTITIES)

yt_verify_data_item(arg, comma) ==
    IF comma = {} THEN arg \in Range(yt_ELECTRICAL_QUANTITIES)
    ELSE yt_verify_element(arg, CHOOSE i \in comma : \A j \in comma : j <= i)

yt_verify(func, arg) ==
    CASE func = "_verify_integration_time" -> _verify_integration_time(PyStr(arg))
      [] func = "_verify_data_items_count" -> _verify_data_items_count(PyStr(arg))
      [] func = "_verify_math_name" -> yt_verify_math_name(arg, MatchTrailingDigits(arg))
      [] OTHER -> yt_verify_data_item(arg, {i \in 1..Len(arg) : SubSeq(arg, i, i) = ","})

\* The "text-descr" of a command with a verification function; the table of
\* electrical quantities of the data item commands is cut to its heading.
yt_text_descr(cmd) ==
    CASE cmd = "set-integration-timer" -> "integer amount of seconds (0-10000 hours)"
      [] cmd = "set-data-items-count" -> "an integer from 1 to " \o IntStr(_MAX_DATA_ITEMS)
      [] cmd = "set-math" -> join(", ", _VALID_MATH_NAMES)
      [] OTHER -> "\n"

\* PowerMeter.ErrorBadArgument
yt_ErrorBadArgument(w, arg, hint) ==
    Throw(w, "ErrorBadArgument", "unacceptable argument \"" \o ToStr(arg) \o "\", use: " \o hint)

\* PowerMeter._verify_argument; 'assortment' are the values the command
\* takes (<<>>: no such list) and 'func' is its verification function.
yt_verify_argument_by(w, cmd, arg, assortment, func) ==
    IF assortment # <<>> /\ (arg.t # "str" \/ arg.s \notin Range(assortment))
    THEN yt_ErrorBadArgument(w, arg, join(", ", assortment))
    ELSE IF func # "" /\ (arg.t # "str" \/ ~yt_verify(func, arg.s))
    THEN yt_ErrorBadArgument(w, arg, yt_text_descr(cmd))
    ELSE Return(w, PyNone)

yt_verify_argument(w, cmd, arg) ==
    yt_verify_argument_by(w, cmd, arg, Get(yt_assortment, cmd, <<>>), Get(yt_verify_func, cmd, ""))

\* transport.write() and PowerMeter._query(): the line goes out with its
\* terminator, the reply comes back stripped.
yt_write(w, data) == writeline(w, data)
yt_query(w, data) ==
    Then(queryline(w, data), LAMBDA r : Return(r.w, PyStr(strip(r.v.s))))

RECURSIVE yt_command(_, _, _)
RECURSIVE yt__command(_, _, _, _)

RECURSIVE yt_RunAll(_, _)
yt_RunAll(w, calls) ==
    IF calls = <<>> THEN Return(w, PyNone)
    ELSE Then(yt__command(w, Head(calls)[1], Head(calls)[2], Head(calls)[3]),
              LAMBDA r : yt_RunAll(r.w, Tail(calls)))

\* WT310._wait_for_data_update
_wait_for_data_update(w) ==
    yt_RunAll(w, [bit \in 1..Len(_EESR_BITS) |->
                    <<"set-eesr-trigger" \o IntStr(bit - 1), PyStr("never"), FALSE>>]
                 \o << <<"get-eesr", PyNone, TRUE>>,
                       <<"set-eesr-trigger0", PyStr("fall"), FALSE>>,
                       <<"eesr-wait0", PyNone, FALSE>> >>)

\* The state check that lets every command pass
_integration_states_unchecked(w, cmd, allowed_states) == Return(w, PyNone)

\* WT310._integration_states_check
_integration_states_check(w, cmd, allowed_states) ==
    Then(yt_command(w, PyStr("get-integration-state"), PyNone), LAMBDA r :
        IF r.v.t = "str" /\ r.v.s \in Range(allowed_states) THEN Return(r.w, PyNone)
        ELSE Throw(r.w, "Error", "current integration state is \"" \o ToStr(r.v) \o "\", but \""
                        \o cmd \o "\" can only be executed in the following state(s): "
                        \o join(", ", allowed_states)))

\* PowerMeter._command, last step first: the verdict on the status reply
\* 'st', the status query after the response 'r', the request 'sent_cmd'
\* going out, the state check 'c' and the input tweaks 'a'.
yt_failed(q, what) ==
    IF q.exc = "TransportError" THEN Throw(q.w, "Error", what \o ":\n" \o q.msg) ELSE q

yt__command_status(r, st, sent_cmd) ==
    IF st.exc # "" THEN st
    ELSE IF split(st.v.s, ",")[1] # "0"
    THEN Throw(st.w, "Error", "command \"" \o lstrip(sent_cmd) \o "\" failed:\n" \o st.v.s)
    ELSE Return(st.w, r.v)

yt__command_checked(r, sent_cmd) ==
    IF r.exc # "" THEN r
    ELSE yt__command_status(r, yt_query(r.w, r.w.command_map["get-error-status"]), sent_cmd)

yt__command_response(q, cmd) == IF q.exc # "" THEN q ELSE yt_apply_tweaks(q.w, cmd, q.v, "out")

yt__command_send(w, cmd, sent_cmd, has_response) ==
    yt__command_checked(
        IF has_response
        THEN yt__command_response(
                yt_failed(yt_query(w, sent_cmd), "sent command \"" \o lstrip(sent_cmd)
                          \o "\" but failed to read the power meter's response"), cmd)
        ELSE yt_failed(yt_write(w, sent_cmd), "failed to write command \"" \o lstrip(sent_cmd)
                       \o "\" to the power meter"),
        sent_cmd)

yt__command_raw(c, cmd, arg, has_response) ==
    IF c.exc # "" THEN c
    ELSE IF c.w.command_map[cmd] = "" THEN _wait_for_data_update(c.w)
    ELSE IF arg.t \notin {"none", "str"}
    THEN Throw(c.w, "TypeError", "cannot concatenate 'str' and other objects")
    ELSE yt__command_send(c.w, cmd, RawCommand(c.w.command_map[cmd], arg), has_response)

yt__command_state(a, cmd, has_response) ==
    IF a.exc # "" THEN a
    ELSE yt__command_raw(IF cmd \in DOMAIN yt_state_checks
                         THEN _integration_states_check(a.w, cmd, yt_state_checks[cmd])
                         ELSE Return(a.w, PyNone),
                         cmd, a.v, has_response)

yt__command(w, cmd, arg, has_response) ==
    yt__command_state(IF arg.t # "none" THEN yt_apply_tweaks(w, cmd, arg, "in") ELSE Return(w, arg),
                      cmd, has_response)

\* PowerMeter.command(cmd, arg)
yt_command_checks(w, cmd, arg) ==
    IF w.commands[cmd].has_argument THEN yt_verify_argument(w, cmd, arg)
    ELSE IF arg.t # "none"
    THEN Throw(w, "Error", "command \"" \o cmd \o "\" does not need argument \"" \o arg.s \o "\"")
    ELSE Return(w, PyNone)

yt_command_run(chk, cmd, arg) ==
    IF chk.exc # "" THEN chk ELSE yt__command(chk.w, cmd, arg, chk.w.commands[cmd].has_response)

yt_command_args(w, cmd, arg) == yt_command_run(yt_command_checks(Log(w, "check"), cmd, arg), cmd, arg)

yt_command(w, cmd, arg) ==
    IF cmd.t # "str" \/ cmd.s \notin DOMAIN w.commands
    THEN command_bad(w, Format1("bad command \"", cmd, "\""))
    ELSE yt_command_args(w, cmd.s, IF arg.t \in {"none", "str"} THEN arg ELSE PyStr(ToStr(arg)))

----------------------------------------------------------------------------
(* Construction of an adapter on an open transport.                        *)

\* The device node a message of the constructor names.
DevNode == "/dev/usbtmc0"

\* YokoBase._init_pmeter: the clear, once more if the first one ended in an
\* Error of the engine, then the settings the engine relies on.
_init_pmeter_settings ==
    <<<<"set-verbose-errors", PyStr("on")>>, <<"set-headers", PyStr("off")>>>>
    \o [b \in DOMAIN _EESR_BITS |-> <<"set-eesr-filter-" \o _EESR_BITS[b], PyStr("never")>>]

_init_pmeter_cleared(first) ==
    IF IsError(first.exc) THEN _command(first.w, "clear", PyNone, TRUE, TRUE) ELSE first

_init_pmeter(w) ==
    Then(_init_pmeter_cleared(_command(w, "clear", PyNone, TRUE, TRUE)),
         LAMBDA r : RunAll(r.w, _init_pmeter_settings))

\* WT310.__init__ of yokolibs after the tables are built: 'r' is the reply
\* to get-id.
WT310_pmtypes == <<"wt310", "wt330", "wt333", "wt333">>
WT310_not_a_wt310(w, ids) ==
    Throw(w, "Error", "'" \o DevNode \o "' has ID string '" \o ids
                      \o "' and it does not look like a WT310 power meter")
WT310_init_typed(w, ids) ==
    IF ~\E i \in DOMAIN WT310_pmtypes : startswith(w.eng.pmtype, WT310_pmtypes[i])
    THEN WT310_not_a_wt310(w, ids)
    ELSE RunAll(w, <<<<"set-data-format", PyStr("ascii")>>, <<"set-compat-mode", PyStr("WT300")>>,
                     <<"set-verbose-mode", PyStr("on")>>>>)
WT310_init_id(r, ids, split_ids) ==
    IF Len(ids) < 2 THEN WT310_not_a_wt310(r.w, ids)
    ELSE IF Len(split_ids) < 2 THEN Throw(r.w, "IndexError", "list index out of range")
    ELSE WT310_init_typed([r.w EXCEPT !.eng.pmtype = lower(strip(split_ids[2]))], ids)
WT310_init(w) ==
    Then(Then(_init_pmeter(w), LAMBDA p : _command(p.w, "get-id", PyNone, TRUE, TRUE)),
         LAMBDA r : WT310_init_id(r, r.v.s, split(r.v.s, ",")))

\* WT210.__init__ of yokolibs.
WT210_init_done(r) ==
    IF r.exc = "ErrorBadResponse"
    THEN Throw(r.w, "ErrorBadResponse",
               r.msg \o "\nDid you switch your WT210 to the '488.2' mode?")
    ELSE r
\* re.match(r"WT\d+", ids).group(0): "WT" and the digits after it, "" if
\* 'ids' does not begin with "WT" and a digit.
RECURSIVE WT_digits(_, _)
WT_digits(ids, n) ==
    IF n < Len(ids) /\ IsDigit(Char(ids, n + 1)) THEN WT_digits(ids, n + 1) ELSE SubSeq(ids, 1, n)
WT210_match(ids) ==
    IF startswith(ids, "WT") /\ Len(ids) > 2 /\ IsDigit(Char(ids, 3)) THEN WT_digits(ids, 3) ELSE ""
WT210_init_id(r, ids) ==
    IF WT210_match(ids) # "" /\ lower(WT210_match(ids)) # "wt210"
    THEN Throw(r.w, "Error", "'" \o DevNode \o "' is not a WT210 power meter")
    ELSE Then(_command(r.w, "set-remote-mode", PyStr("on"), TRUE, TRUE),
              LAMBDA q : _command(q.w, "get-line-filter", PyNone, TRUE, TRUE))
WT210_init(w) ==
    Then(Then(WT210_init_done(_init_pmeter([w EXCEPT !.eng.pmtype = "wt210"])),
              LAMBDA p : _command(p.w, "get-id", PyNone, TRUE, TRUE)),
         LAMBDA r : WT210_init_id(r, r.v.s))

\* WT310.__init__ of yokotools: the clear, whose Error is dropped, the clear
\* again and the settings.
yt_WT310_init_settings ==
    <<<<"clear", PyNone, FALSE>>, <<"set-data-format", PyStr("ascii"), FALSE>>,
      <<"set-compat-mode", PyStr("WT300"), FALSE>>, <<"set-verbose-errors", PyStr("on"), FALSE>>,
      <<"set-headers", PyStr("off"), FALSE>>, <<"set-verbose-mode", PyStr("on"), FALSE>>>>
yt_WT310_init_cleared(first) ==
    IF first.exc \notin {"", "Error"} THEN first ELSE yt_RunAll(first.w, yt_WT310_init_settings)
yt_WT310_init(w) == yt_WT310_init_cleared(yt__command(w, "clear", PyNone, FALSE))

\* The constructor of the adapter of the world 'w'.
Construct(w) ==
    CASE w.eng.kind = "old310" -> yt_WT310_init(w)
      [] w.eng.kind = "wt210" -> WT210_init(w)
      [] OTHER -> WT310_init(w)

----------------------------------------------------------------------------
(* Opening a transport: Transport(devnode, baudrate=...) of                *)
(* yokolibs/Transport.py.  It runs in a world 'o': what the system will    *)
(* answer ('env'), the system calls made so far ('log') and the transport  *)
(* object under construction ('obj').                                      *)

\* A transport object: the class, the descriptor (usbtmc), the pyserial
\* port ("unset": no such attribute yet, "none": None, else closed or
\* open), who holds the mutex of close() ("": nobody) and whether an engine
\* refers to the object.
NoObject ==
    [name |-> "", fd |-> PyNone, ser |-> "unset", baud |-> PyNone, mutex |-> "", held |-> FALSE]
OsWorld(env) == [env |-> env, log |-> <<>>, obj |-> NoObject]
Did(o, ev) == [o EXCEPT !.log = Append(@, ev)]

\* What str() of the error of a failing system call says.
EACCES == "[Errno 13] Permission denied"
EIO == "[Errno 5] Input/output error"
SerialNewText == "could not configure port"
SerialOpenText(devnode) == "[Errno 13] could not open port " \o devnode

\* _TransportBase.__init__
_TransportBase_init(o, devnode) ==
    IF ~o.env.exists
    THEN Throw(Did(o, "exists"), "_BadInput", "device node '" \o devnode \o "' does not exist")
    ELSE IF ~o.env.stat_ok
    THEN Throw(Did(Did(o, "exists"), "stat"), "_BadInput",
               "failed access device '" \o devnode \o "':\n" \o EACCES)
    ELSE IF ~o.env.chr
    THEN Throw(Did(Did(o, "exists"), "stat"), "_BadInput",
               "device node '" \o devnode \o "' is not a character device")
    ELSE Return(Did(Did(o, "exists"), "stat"), PyNone)

\* _TransportBase.ioctl: the probe of the device class.  '%#X' of the
\* ioctl number 0x5b02 is 0X5B02.
_TransportBase_ioctl(o, devnode, name) ==
    CASE o.env.ioctl = "ENOTTY" ->
            Throw(Did(o, "ioctl"), "Exceptions.Error",
                  "'" \o devnode \o "' is not a '" \o name \o "' device")
      [] o.env.ioctl = "EIO" ->
            Throw(Did(o, "ioctl"), "TransportError",
                  "ioctl '0X5B02' for device '" \o devnode \o "' failed:\n" \o EIO)
      [] OTHER -> Return(Did(o, "ioctl"), PyNone)

_USBTMC_init_opened(o, devnode) == _TransportBase_ioctl(o, devnode, "usbtmc")

\* _USBTMC.__init__
_USBTMC_init(o, devnode) ==
    Then(_TransportBase_init([o EXCEPT !.obj = [NoObject EXCEPT !.name = "usbtmc"]], devnode),
         LAMBDA b :
            IF ~b.w.env.open_ok
            THEN Throw(Did(b.w, "open"), "_BadInput",
                       "error opening device '" \o devnode \o "':\n" \o EACCES)
            ELSE _USBTMC_init_opened([Did(b.w, "open") EXCEPT !.obj.fd = PyInt(b.w.env.fd)],
                                     devnode))

\* _Serial.__init__: 'baudrate' is None when the caller gave none.
_Serial_bauds == {1200, 2400, 4800, 9600, 19200, 38400, 57600}
_Serial_init_port(o, devnode, baudrate) ==
    IF baudrate.t # "none" /\ baudrate # PyInt(0)
       /\ baudrate \notin {PyInt(b) : b \in _Serial_bauds}
    THEN Throw(o, "_BadInput", "bad baud rate '" \o baudrate.s \o "'")
    ELSE LET rate == IF baudrate.t = "none" THEN PyInt(9600) ELSE baudrate
             p == [o EXCEPT !.obj.baud = rate]
         IN  IF ~p.env.ser_open
             THEN Throw(Did(p, "serial.open"), "TransportError",
                        "cannot initialize the serial device '" \o devnode \o "':\n"
                        \o SerialOpenText(devnode))
             ELSE Return([Did(p, "serial.open") EXCEPT !.obj.ser = "open"], PyNone)
_Serial_init(o, devnode, baudrate) ==
    Then(_TransportBase_init([o EXCEPT !.obj = [NoObject EXCEPT !.name = "serial"]], devnode),
         LAMBDA b :
            IF ~b.w.env.ser_new
            THEN Throw([Did(b.w, "serial.Serial") EXCEPT !.obj.ser = "none"], "TransportError",
                       "cannot initialize the serial device '" \o devnode \o "':\n"
                       \o SerialNewText)
            ELSE _Serial_init_port([Did(b.w, "serial.Serial") EXCEPT !.obj.ser = "closed"],
                                   devnode, baudrate))

\* textwrap.TextWrapper(width).wrap(text) with its defaults, for texts
\* without tabs and hyphens: every whitespace character becomes a blank,
\* the text is cut into words and runs of blanks, and the lines are filled
\* greedily; a line after the first drops the blanks it would start with,
\* every line the blanks it would end with, and a word longer than a line
\* is broken.
\* (The recursions over a text go by halves.)
RECURSIVE _munge_whitespace(_)
_munge_whitespace(s) ==
    IF s = "" THEN ""
    ELSE IF Len(s) = 1 THEN (IF IsSpace(s) THEN " " ELSE s)
    ELSE _munge_whitespace(SubSeq(s, 1, Len(s) \div 2))
         \o _munge_whitespace(SubSeq(s, Len(s) \div 2 + 1, Len(s)))

Blank(chunk) == chunk = "" \/ Char(chunk, 1) = " "

\* The chunks of two adjacent pieces of text: the run that crosses the cut
\* is one chunk.
Chunked(a, b) ==
    IF a = <<>> THEN b
    ELSE IF b = <<>> THEN a
    ELSE IF Blank(a[Len(a)]) = Blank(b[1])
    THEN SubSeq(a, 1, Len(a) - 1) \o <<a[Len(a)] \o b[1]>> \o Tail(b)
    ELSE a \o b

RECURSIVE _split(_)
_split(s) ==
    IF s = "" THEN <<>>
    ELSE IF Len(s) = 1 THEN <<s>>
    ELSE Chunked(_split(SubSeq(s, 1, Len(s) \div 2)), _split(SubSeq(s, Len(s) \div 2 + 1, Len(s))))

RECURSIVE Join(_)
Join(chunks) ==
    IF chunks = <<>> THEN ""
    ELSE IF Len(chunks) = 1 THEN chunks[1]
    ELSE Join(SubSeq(chunks, 1, Len(chunks) \div 2))
         \o Join(SubSeq(chunks, Len(chunks) \div 2 + 1, Len(chunks)))

RECURSIVE Fitting(_, _)
Fitting(chunks, room) ==
    IF chunks # <<>> /\ Len(Head(chunks)) <= room
    THEN 1 + Fitting(Tail(chunks), room - Len(Head(chunks)))
    ELSE 0

RECURSIVE _wrap_chunks(_, _, _, _, _)
_wrap_chunks(chunks, lines, width, initial_indent, subsequent_indent) ==
    IF chunks = <<>> THEN lines
    ELSE LET indent == IF lines # <<>> THEN subsequent_indent ELSE initial_indent
             room == width - Len(indent)
             cs == IF Blank(Head(chunks)) /\ lines # <<>> THEN Tail(chunks) ELSE chunks
             fit == SubSeq(cs, 1, Fitting(cs, room))
             rest == SubSeq(cs, Len(fit) + 1, Len(cs))
             long == rest # <<>> /\ Len(Head(rest)) > room
             space_left == IF room < 1 THEN 1 ELSE room - Len(Join(fit))
             cur == IF long THEN Append(fit, SubSeq(Head(rest), 1, space_left)) ELSE fit
             left == IF long
                     THEN <<SubSeq(Head(rest), space_left + 1, Len(Head(rest)))>> \o Tail(rest)
                     ELSE rest
             kept == IF cur # <<>> /\ Blank(cur[Len(cur)]) THEN SubSeq(cur, 1, Len(cur) - 1)
                     ELSE cur
         IN  _wrap_chunks(left, IF kept # <<>> THEN Append(lines, indent \o Join(kept)) ELSE lines,
                          width, initial_indent, subsequent_indent)

wrap(text, width, initial_indent, subsequent_indent) ==
    _wrap_chunks(_split(_munge_whitespace(text)), <<>>, width, initial_indent, subsequent_indent)

\* "\n".join(lines)
RECURSIVE JoinLines(_)
JoinLines(lines) ==
    IF lines = <<>> THEN ""
    ELSE IF Len(lines) = 1 THEN lines[1]
    ELSE lines[1] \o "\n" \o JoinLines(Tail(lines))

\* Transport.__new__: the classes in the order they are tried, the log of
\* the attempts that failed and the loop over the classes.  'errors' are
\* <<class, message>> pairs.
tclasses == <<"usbtmc", "serial">>

\* The log with the classes alone
RECURSIVE AttemptsLog_names(_)
AttemptsLog_names(errors) ==
    IF errors = <<>> THEN <<>>
    ELSE wrap(Head(errors)[1], 79, " * ", "   ") \o AttemptsLog_names(Tail(errors))

RECURSIVE AttemptsLog(_)
AttemptsLog(errors) ==
    IF errors = <<>> THEN <<>>
    ELSE wrap(Head(errors)[1] \o ": " \o Head(errors)[2], 79, " * ", "   ")
         \o AttemptsLog(Tail(errors))

Transport_unknown(o, devnode, errors) ==
    Throw(o, "TransportError",
          JoinLines(wrap("unknown type of the device '" \o devnode \o "'. Here is the log of all "
                         \o "the attempts to recognize the device type.", 79, "", "")
                    \o AttemptsLog(errors)))

Transport_attempt(o, devnode, baudrate, tclass) ==
    IF tclass = "usbtmc" THEN _USBTMC_init(o, devnode) ELSE _Serial_init(o, devnode, baudrate)

\* 'except Error' of Transport.py: the classes of yokolibs.Exceptions
IsTransportError(exc) == exc \in {"Exceptions.Error", "TransportError", "_BadInput"}

RECURSIVE Transport_try(_, _, _, _, _)
\* No failure fatal
Transport_tried_on(r, devnode, baudrate, i, errors) ==
    IF r.exc = "" THEN Return(r.w, PyStr(tclasses[i]))
    ELSE Transport_try(r.w, devnode, baudrate, i + 1, Append(errors, <<tclasses[i], r.msg>>))

Transport_tried(r, devnode, baudrate, i, errors) ==
    IF r.exc = "" THEN Return(r.w, PyStr(tclasses[i]))
    ELSE IF r.exc = "_BadInput" \/ ~IsTransportError(r.exc) THEN r
    ELSE Transport_try(r.w, devnode, baudrate, i + 1, Append(errors, <<tclasses[i], r.msg>>))
Transport_try(o, devnode, baudrate, i, errors) ==
    IF i > Len(tclasses) THEN Transport_unknown(o, devnode, errors)
    ELSE Transport_tried(Transport_attempt(o, devnode, baudrate, tclasses[i]),
                         devnode, baudrate, i, errors)

Transport_new(o, devnode, baudrate) == Transport_try(o, devnode, baudrate, 1, <<>>)

\* The state of the system side: what it will answer, the call being
\* made, whether Transport() ran and how it ended, the system calls made,
\* the handle of the transport ("none", "open" or "closed"), how often the
\* system was asked to close it and how many of the coming requests to
\* close it will fail; of the callers: whether an engine was built on
\* the transport, how many calls of close() were made, how many of them
\* raised, and whether the finalizer ran.
NoSys == [env |-> <<>>, devnode |-> "", baud |-> PyNone, called |-> FALSE, exc |-> "", msg |-> "",
          log |-> <<>>, handle |-> "none", closes |-> 0, fail |-> 0,
          engine |-> FALSE, calls |-> 0, raised |-> 0, finalized |-> FALSE]
NoThreads == <<>>

----------------------------------------------------------------------------
(* Closing a transport.  close() runs in a world 'c': the object, the      *)
(* system, and where the calling thread stands ('pc') or what it raised    *)
(* ('exc').  The classes: "usbtmc" and "serial" of Transport.py, "USBTMC"  *)
(* of _transport.py.                                                       *)

\* 'if self._fd:' and 'if self._ser:'
Truthy_fd(fd) == fd.t # "none" /\ fd # PyInt(0)
Truthy_ser(ser) == ser \in {"closed", "open"}

Raising(c, exc) == [c EXCEPT !.pc = "raised", !.exc = exc]
\* where close() goes once the handle is dealt with
Leave(c) == IF c.obj.name = "USBTMC" THEN "release" ELSE "done"

\* os.close(fd): the descriptor is gone whether the call reports an error
\* or not; closing it again is an error.
os_close(c, fd) ==
    LET d == [c EXCEPT !.sys.log = Append(@, "close " \o fd.s), !.sys.closes = @ + 1,
                       !.sys.handle = "closed", !.sys.fail = IF @ > 0 THEN @ - 1 ELSE 0]
    IN  IF c.sys.fail > 0 \/ c.sys.handle # "open" THEN Raising(d, "OSError")
        ELSE [d EXCEPT !.pc = "clear"]

\* Serial.close() of pyserial: releases the port if it is open.
ser_close(c) ==
    IF c.obj.ser = "open"
    THEN [c EXCEPT !.sys.log = Append(@, "close port"), !.sys.closes = @ + 1,
                   !.sys.handle = "closed", !.obj.ser = "closed", !.pc = "clear"]
    ELSE [c EXCEPT !.pc = "clear"]

\* The start of close(): the mutex is taken first where there is one.
CloseEntry(name) == IF name = "USBTMC" THEN "acquire" ELSE "test"

\* One step of close() by the thread 't': _USBTMC.close and _Serial.close of
\* Transport.py, USBTMC.close of _transport.py.  A thread that waits for
\* the mutex makes no step.
CloseStep(c, t) ==
    CASE c.pc = "acquire" ->
            IF c.obj.mutex = "" THEN [c EXCEPT !.obj.mutex = t, !.pc = "test"] ELSE c
      [] c.pc = "test" ->
            IF c.obj.name = "serial"
            THEN [c EXCEPT !.pc = IF Truthy_ser(c.obj.ser) THEN "ser_close" ELSE Leave(c)]
            ELSE [c EXCEPT !.pc = IF Truthy_fd(c.obj.fd) THEN "os_close" ELSE Leave(c)]
      [] c.pc = "os_close" ->
            IF c.obj.fd.t = "none" THEN Raising(c, "TypeError")
            ELSE os_close(c, c.obj.fd)
      [] c.pc = "ser_close" ->
            IF ~Truthy_ser(c.obj.ser) THEN Raising(c, "AttributeError") ELSE ser_close(c)
      [] c.pc = "clear" ->
            IF c.obj.name = "serial" THEN [c EXCEPT !.obj.ser = "none", !.pc = Leave(c)]
            ELSE [c EXCEPT !.obj.fd = PyNone, !.pc = Leave(c)]
      [] c.pc = "release" -> [c EXCEPT !.obj.mutex = "", !.pc = "done"]
      [] OTHER -> c

Waiting(c) == c.pc = "acquire" /\ c.obj.mutex # ""
Ended(pc) == pc \in {"idle", "done", "raised"}

\* close() from the call to the return, the exception or the wait that
\* never ends ("blocked").
RECURSIVE RunClose(_, _)
RunClose(c, t) ==
    IF Ended(c.pc) THEN c
    ELSE IF Waiting(c) THEN [c EXCEPT !.pc = "blocked"]
    ELSE RunClose(CloseStep(c, t), t)

\* The same with the descriptor kept after the close
close_kept(c, t) ==
    LET r == RunClose([c EXCEPT !.pc = CloseEntry(c.obj.name)], t)
    IN  [r EXCEPT !.obj.fd = c.obj.fd, !.obj.ser = IF c.obj.name = "serial" THEN r.obj.ser ELSE @]

\* transport.close()
close(c, t) == RunClose([c EXCEPT !.pc = CloseEntry(c.obj.name)], t)

\* YokoBase.close()
YokoBase_close(c, t) ==
    IF ~c.obj.held THEN [c EXCEPT !.pc = "done"]
    ELSE IF close(c, t).pc # "done" THEN close(c, t)
    ELSE [close(c, t) EXCEPT !.obj.held = FALSE]

\* __del__ of the transports
del(c, t) == close(c, t)

\* In the behaviours of an engine the transport is open and stays so; its
\* descriptor side is not looked at.
----------------------------------------------------------------------------
(* The tables of the _yokobase module as objects: COMMANDS, _DATA_ITEMS    *)
(* and _ERROR_CODES_MAP are created when the module is imported, and an    *)
(* adapter that is assigned one of them refers to that one object.         *)

\* A value of a public command: "choices" and "choices-set", each absent,
\* None or set.
NoInfo == [choices |-> [st |-> "absent", l |-> <<>>], cset |-> [st |-> "absent", s |-> {}]]

\* The module right after import: no adapter built.
NoPy ==
    [COMMANDS |-> [c \in COMMANDS |-> NoInfo],
     DATA_ITEMS |-> _DATA_ITEMS,
     ERROR_CODES_MAP |-> [code \in {813} |-> _ERROR_CODES_MAP[code]],
     adapters |-> <<>>,
     used |-> 0]

\* d[k] = v for each k of 'keys' on the keys of an OrderedDict: a new key
\* goes to the end, a key it has stays where it is.
RECURSIVE SetItems(_, _)
SetItems(l, keys) ==
    IF keys = <<>> THEN l
    ELSE SetItems(IF Head(keys) \in Range(l) THEN l ELSE Append(l, Head(keys)), Tail(keys))

\* YokoBase._populate_data_items: self._data_items = _DATA_ITEMS, and the
\* items of the adapter and the virtual ones are stored into it.
YokoBase_populate_data_items(m, items) ==
    [m EXCEPT !.DATA_ITEMS = SetItems(SetItems(m.DATA_ITEMS, items), _VDATA_ITEMS)]

\* WT310._add_wt310_commands: three entries of self.commands are set to
\* new values.
WT310_added == {"get-integration-state", "get-keys-locking", "set-keys-locking"}
_add_wt310_commands(m) ==
    [m EXCEPT !.COMMANDS = [c \in DOMAIN m.COMMANDS \cup WT310_added |->
                                IF c \in WT310_added THEN NoInfo ELSE m.COMMANDS[c]]]

\* YokoBase._populate_choices on cmds = self.commands: the choices of the
\* base and of the adapter, of the data items and the math names, then
\* the defaults of what is still absent.
ChoicesDeclared(cmds, infos) ==
    [c \in DOMAIN cmds |->
        LET hits == {i \in DOMAIN infos : c \in Range(infos[i].commands)}
        IN  IF hits = {} THEN cmds[c]
            ELSE [cmds[c] EXCEPT !.choices =
                    [st |-> "tuple", l |-> infos[CHOOSE i \in hits : \A j \in hits : j <= i].choices]]]
ChoicesFromDict(cmds, names, l) ==
    [c \in DOMAIN cmds |->
        IF c \in names THEN [cmds[c] EXCEPT !.choices = [st |-> "tuple", l |-> l]] ELSE cmds[c]]
ChoicesDefaulted(cmds) ==
    [c \in DOMAIN cmds |->
        IF cmds[c].choices.st = "absent"
        THEN [choices |-> [st |-> "none", l |-> <<>>], cset |-> [st |-> "none", s |-> {}]]
        ELSE IF cmds[c].cset.st = "absent"
        THEN [cmds[c] EXCEPT !.cset = [st |-> "set", s |-> Range(cmds[c].choices.l)]]
        ELSE cmds[c]]
YokoBase_populate_choices(m, choices) ==
    [m EXCEPT !.COMMANDS =
        ChoicesDefaulted(
            ChoicesFromDict(
                ChoicesFromDict(ChoicesDeclared(m.COMMANDS, _CHOICES \o choices),
                                {"read-data", "configure-data-items"}, m.DATA_ITEMS),
                {"get-math", "set-math"}, _MATH_NAMES))]

\* YokoBase._populate_errors_map_map: self._errors_map = _ERROR_CODES_MAP,
\* and the three integration codes are bound to the handler in it.
YokoBase_populate_errors_map_map(m) ==
    [m EXCEPT !.ERROR_CODES_MAP =
        [code \in DOMAIN m.ERROR_CODES_MAP \cup {842, 844, 845} |->
            IF code \in {842, 844, 845} THEN [msg |-> "", func |-> "_integration_error_handler"]
            ELSE m.ERROR_CODES_MAP[code]]]

\* The tables of the module after the constructor of an adapter of 'kind'
\* has built them.
Populated(m, kind) ==
    IF kind = "wt310"
    THEN YokoBase_populate_errors_map_map(
            YokoBase_populate_choices(
                _add_wt310_commands(YokoBase_populate_data_items(m, _WT310_DATA_ITEMS)),
                WT310_CHOICES))
    ELSE YokoBase_populate_errors_map_map(
            YokoBase_populate_choices(YokoBase_populate_data_items(m, <<>>), WT210_CHOICES))

InUse == transport = NoObject /\ sys = NoSys /\ threads = NoThreads /\ py = NoPy

----------------------------------------------------------------------------
(* The state machine: a caller drives one engine that talks to one meter.  *)

Kinds == {"wt310", "wt210", "old310"}

\* The engine object as its constructor leaves it.
NewEngine(kind, errors_map) ==
    [kind |-> kind, errors_map |-> errors_map,
     pmtype |-> (CASE kind = "wt310" -> "wt310" [] kind = "wt210" -> "wt210" [] OTHER -> ""),
     items_to_read |-> [set |-> TRUE, l |-> <<>>],
     item_indexes |-> [set |-> FALSE, l |-> <<>>],
     interval |-> [set |-> FALSE, f |-> [ok |-> TRUE, neg |-> FALSE, m |-> 0, e |-> 0]],
     wt210_items_to_read |-> [set |-> FALSE, l |-> <<>>],
     wt210_item_indexes |-> [set |-> FALSE, l |-> <<>>]]

\* The meter once the constructor has cleared its queues: the integration
\* state and the crest factor are whatever they were when the tool connected.
NewMeter(integ, crest) ==
    [integ |-> integ, crest |-> crest, err |-> 0, outq |-> <<>>, nitems |-> 1, on |-> {},
     auto |-> {}, rate |-> "0.5", filt |-> "never", slots |-> [k \in 1.._MAX_DATA_ITEMS |-> "U"],
     idn |-> OwnId, stat |-> OwnId, range |-> [CURR |-> "20", VOLT |-> "600"],
     timer |-> "0,1,40"]

\* The tables the constructor of the adapter builds: the commands, the
\* values each of them takes and, in yokotools, the wire commands.
WT310_commands == _commands_of("wt310")
WT210_commands == _commands_of("wt210")
WT310_choices == _populate_choices("wt310")
WT210_choices == _populate_choices("wt210")

CommandsOf(kind) ==
    CASE kind = "old310" -> yt_commands
      [] kind = "wt210" -> WT210_commands
      [] OTHER -> WT310_commands
ChoicesOf(kind) ==
    CASE kind = "old310" -> yt_assortment
      [] kind = "wt210" -> WT210_choices
      [] OTHER -> WT310_choices
CommandMapOf(kind) == IF kind = "old310" THEN yt_command_map ELSE <<>>

\* A call in progress: the adapter with its tables, the meter, the fault the
\* meter is about to raise, the clock and what went over the transport.
World(e, d, fault, t) ==
    [eng |-> e, dev |-> d, fault |-> fault, now |-> t, trace |-> <<>>, link |-> NoLink,
     commands |-> CommandsOf(e.kind), choices |-> ChoicesOf(e.kind),
     command_map |-> CommandMapOf(e.kind)]

\* The same on a link that fails as 'link' says.
WorldOn(e, d, fault, t, link) == [World(e, d, fault, t) EXCEPT !.link = link]

\* command() of the engine in use
Run(w, cmd, arg) == IF w.eng.kind = "old310" THEN yt_command(w, cmd, arg) ELSE command(w, cmd, arg)

NoRequest == [pending |-> FALSE, cmd |-> PyNone, arg |-> PyNone, fault |-> 0]
\* The requested items of a data configuration, as a sequence of names.
ItemNames(arg) == IF arg.t = "list" THEN [i \in DOMAIN arg.l |-> arg.l[i].s] ELSE <<>>

\* What the caller knows of the data it reads: the configuration in force
\* (the list of the latest configure-data-items, if that succeeded), the
\* time of the latest wait-data-update that returned, and the time stamp of
\* the latest read-data of this configuration that returned one.
NoConf == [set |-> FALSE, arg |-> PyNone]
ConfAfter(l) ==
    IF l.called /\ l.cmd = PyStr("configure-data-items")
    THEN IF l.exc = "" /\ l.arg.t = "list" THEN [set |-> TRUE, arg |-> l.arg] ELSE NoConf
    ELSE l.prev.conf
WaitedAfter(l) ==
    IF l.called /\ l.cmd = PyStr("wait-data-update") /\ l.exc = "" THEN l.at ELSE l.prev.waited
\* The position of the time stamp in a successful read-data: 0 if it has none.
StampAt(l) ==
    IF l.called /\ l.cmd = PyStr("read-data") /\ l.exc = "" /\ l.ret.t = "list" /\ l.prev.conf.set
    THEN LET at == {i \in DOMAIN l.ret.l : i \in DOMAIN l.prev.conf.arg.l
                                           /\ l.prev.conf.arg.l[i] = PyStr("T")}
         IN  IF at = {} THEN 0 ELSE CHOOSE i \in at : TRUE
    ELSE 0
StampAfter(l) ==
    IF l.called /\ l.cmd = PyStr("configure-data-items") THEN ""
    ELSE IF StampAt(l) > 0 THEN l.ret.l[StampAt(l)].s
    ELSE l.prev.tread

\* The command a call follows: an integration or a range command that
\* succeeded just before it, the meter having done nothing of its own in
\* between; the command, its argument and the integration state it started
\* in.
IntegrationCommands == {"start-integration", "stop-integration", "reset-integration"}
FollowedCommands == IntegrationCommands \cup {"set-current-range", "set-voltage-range"}
\* The call that a failure of the link brought down, for the call after it.
NoBroke == [set |-> FALSE, cmd |-> PyNone, arg |-> PyNone]
BrokeAfter(l) ==
    IF l.called /\ l.link # NoLink /\ l.exc \in {"TransportError", "Error"}
       /\ \E i \in DOMAIN l.trace : l.trace[i] = "R" \/ startswith(l.trace[i], "X ")
    THEN [set |-> TRUE, cmd |-> l.cmd, arg |-> l.arg]
    ELSE NoBroke

NoPrev ==
    [called |-> FALSE, cmd |-> "", arg |-> PyNone, integ0 |-> "reset",
     conf |-> NoConf, waited |-> -1, tread |-> "", broke |-> NoBroke]
Prev(l, d) ==
    IF l.called /\ d = l.dev1 /\ l.exc = "" /\ l.cmd.t = "str" /\ l.cmd.s \in FollowedCommands
    THEN [called |-> TRUE, cmd |-> l.cmd.s, arg |-> l.arg, integ0 |-> l.dev0.integ,
          conf |-> ConfAfter(l), waited |-> WaitedAfter(l), tread |-> StampAfter(l),
          broke |-> NoBroke]
    ELSE [NoPrev EXCEPT !.conf = ConfAfter(l), !.waited = WaitedAfter(l), !.tread = StampAfter(l),
                        !.broke = BrokeAfter(l)]

NoCall(e, d) ==
    [called |-> FALSE, cmd |-> PyNone, arg |-> PyNone, fault |-> 0, exc |-> "", msg |-> "",
     ret |-> PyNone, trace |-> <<>>, at |-> 0, eng0 |-> e, dev0 |-> d, dev1 |-> d,
     prev |-> NoPrev, link |-> NoLink]

\* What a call leaves behind: the request, its outcome, what it did on the
\* transport, the time it was made at, the engine and the meter before (0)
\* and after (1) it, what went before it, and the link it was made on if
\* that was a failing one.
Outcome(cmd, arg, fault, r, e, d, before) ==
    [called |-> TRUE, cmd |-> cmd, arg |-> arg, fault |-> fault, exc |-> r.exc, msg |-> r.msg,
     ret |-> r.v, trace |-> r.w.trace, at |-> r.w.now, eng0 |-> e, dev0 |-> d, dev1 |-> r.w.dev,
     prev |-> before, link |-> NoLink]

\* The status codes the meter may raise for reasons of its own.
Faults == {0, DevCode("parameter")}

\* The enumerated domain of a command: <<>> if it declares none.
Domain(kind, cmd) ==
    IF kind = "old310" THEN Get(yt_assortment, cmd, <<>>) ELSE ChoicesOf(kind)[cmd]

\* The two entries of a list of ranges the handler ties to a crest factor:
\* in yokolibs the second and the last one.
Ends(kind, c) == {c[IF kind = "old310" THEN 1 ELSE 2], c[Len(c)]}

\* The requests of the caller in the behaviours of Spec.
Calls(kind) ==
    {[cmd |-> PyStr(c), arg |-> PyNone] :
        c \in {"get-id", "start-integration", "stop-integration", "reset-integration",
               "get-integration-state", "get-current-range", "bogus"}}
    \cup {[cmd |-> PyStr("set-crest-factor"), arg |-> PyStr(a)] : a \in {"3", "6"}}
    \cup {[cmd |-> PyStr("set-current-range"), arg |-> PyStr(a)] :
            a \in Ends(kind, Domain(kind, "set-current-range"))}
    \cup {[cmd |-> PyStr("set-line-filter"), arg |-> PyStr("on")],
          [cmd |-> PyStr("start-integration"), arg |-> PyStr("now")]}

----------------------------------------------------------------------------
\* A state after construction: any adapter, the meter in any integration
\* state and with either crest factor.
Init ==
    \E kind \in Kinds, integ \in INTEG_STATES, crest \in {"3", "6"} :
        /\ pmeter = NewEngine(kind, _ERROR_CODES_MAP)
        /\ dev = NewMeter(integ, crest)
        /\ now = 0
        /\ req = NoRequest
        /\ last = NoCall(pmeter, dev)
        /\ InUse

\* One command() call, from the entry to the return or the exception.
Done(cmd, arg, fault, r) ==
    /\ pmeter' = r.w.eng
    /\ dev' = r.w.dev
    /\ last' = Outcome(cmd, arg, fault, r, pmeter, dev, Prev(last, dev))

Command(cmd, arg, fault) ==
    /\ Done(cmd, arg, fault, Run(World(pmeter, dev, fault, now), cmd, arg))
    /\ UNCHANGED <<now, req>>
    /\ UNCHANGED hvars

\* The meter ends a running integration by itself: the timer runs out, or
\* a value overflows.
IntegrationTimeUp ==
    /\ dev.integ = "start"
    /\ dev' = [dev EXCEPT !.integ = "timeup"]
    /\ UNCHANGED <<pmeter, now, req, last>>
    /\ UNCHANGED hvars

IntegrationError ==
    /\ dev.integ = "start"
    /\ dev' = [dev EXCEPT !.integ = "error"]
    /\ UNCHANGED <<pmeter, now, req, last>>
    /\ UNCHANGED hvars

Next ==
    \/ \E c \in Calls(pmeter.kind), fault \in Faults : Command(c.cmd, c.arg, fault)
    \/ IntegrationTimeUp
    \/ IntegrationError

Spec == Init /\ [][Next]_vars

----------------------------------------------------------------------------
(* command() as a function of its inputs: the caller has decided on one    *)
(* request, drawn from every public name of the adapter and a set of       *)
(* names that are none, with arguments of every kind.                      *)

BadNames ==
    {PyStr(" get-id"), PyStr("get-id "), PyStr("get-id_"), PyStr("GET-ID"), PyStr(""),
     PyStr("bogus"), PyInt(5), PyNone, PyList(<<PyStr("get-id")>>),
     PyTuple(<<PyStr("get-id")>>), PyTuple(<<PyStr("get-id"), PyStr("x")>>)}

PublicNames(kind) == IF kind = "old310" THEN DOMAIN yt_commands ELSE DOMAIN ChoicesOf(kind)

\* The arguments tried with a name: none, strings in no domain, a number,
\* lists, and every value of the command's domain, alone and in a list.
ArgsIn(D) ==
    {PyNone, PyStr("x"), PyStr("ON"), PyStr("100"), PyInt(5), PyList(<<>>),
     PyList(<<PyStr("P"), PyStr("T")>>)}
    \cup {PyStr(v) : v \in D}
    \cup {PyList(<<PyStr(v)>>) : v \in D}
    \cup {PyList(<<PyStr(v), PyStr("x")>>) : v \in D}

ArgsFor(kind, names, cmd) ==
    ArgsIn(IF cmd.t = "str" /\ cmd.s \in names THEN Range(Domain(kind, cmd.s)) ELSE {})

\* The caller decides on a request: a name, public or not, an argument
\* and what the meter will make of it.
Decide(kind, names) ==
    \E cmd \in {PyStr(c) : c \in names} \cup BadNames :
    \E arg \in ArgsFor(kind, names, cmd), fault \in Faults :
        req = [pending |-> TRUE, cmd |-> cmd, arg |-> arg, fault |-> fault]

InitCall ==
    \E kind \in Kinds, integ \in INTEG_STATES, crest \in {"3", "6"} :
        /\ pmeter = NewEngine(kind, _ERROR_CODES_MAP)
        /\ dev = NewMeter(integ, crest)
        /\ now = 0
        /\ Decide(kind, PublicNames(kind))
        /\ last = NoCall(pmeter, dev)
        /\ InUse

\* The caller makes the request it decided on.
Issue ==
    /\ req.pending
    /\ Done(req.cmd, req.arg, req.fault, Run(World(pmeter, dev, req.fault, now), req.cmd, req.arg))
    /\ req' = NoRequest
    /\ UNCHANGED now
    /\ UNCHANGED hvars

NextCall == Issue

SpecCall == InitCall /\ [][NextCall]_vars

----------------------------------------------------------------------------
(* The status check as a function of the error map: the map of an adapter  *)
(* binds one more status code of the meter to a resolver, which is the     *)
(* adapter's own, one that handles the condition, or one that returns a    *)
(* message.                                                                *)

Resolvers == {"_integration_error_handler", "returns_none", "returns_text"}

ErrorsMapWith(code, func) == (code :> [msg |-> "", func |-> func]) @@ _ERROR_CODES_MAP

StatusFaults == {0, DevCode("parameter"), DevCode("other")}

StatusCalls ==
    {[cmd |-> PyStr(c), arg |-> PyNone] :
        c \in {"get-id", "start-integration", "stop-integration", "get-interval"}}
    \cup {[cmd |-> PyStr("set-integration-timer"), arg |-> PyStr("100")],
          [cmd |-> PyStr("set-line-filter"), arg |-> PyStr("on")]}

InitStatus ==
    \E kind \in {"wt310", "wt210"}, integ \in INTEG_STATES, crest \in {"3", "6"},
       func \in Resolvers :
        /\ pmeter = NewEngine(kind, ErrorsMapWith(DevCode("other"), func))
        /\ dev = NewMeter(integ, crest)
        /\ now = 0
        /\ req = NoRequest
        /\ last = NoCall(pmeter, dev)
        /\ InUse

NextStatus == \E c \in StatusCalls, fault \in StatusFaults : Command(c.cmd, c.arg, fault)

SpecStatus == InitStatus /\ [][NextStatus]_vars

----------------------------------------------------------------------------
(* The range commands in sequence: a yokolibs adapter connects to a meter  *)
(* that has either input in automatic or in fixed range, and the caller    *)
(* sets and reads the ranges and changes the crest factor.                 *)

Inputs == {"CURR", "VOLT"}

\* The ranges tried with a range command: "auto" and both ends, the second
\* and the last but one entry of its list.
RangesTried(c) == {"auto", c[1], c[2], c[Len(c) - 1], c[Len(c)]}

RangeCalls(kind) ==
    {[cmd |-> PyStr(c), arg |-> PyNone] : c \in {"get-current-range", "get-voltage-range"}}
    \cup {[cmd |-> PyStr("set-crest-factor"), arg |-> PyStr(a)] : a \in {"3", "6"}}
    \cup UNION {{[cmd |-> PyStr(c), arg |-> PyStr(a)] : a \in RangesTried(Domain(kind, c))} :
                    c \in {"set-current-range", "set-voltage-range"}}

InitRange ==
    \E kind \in {"wt310", "wt210"}, crest \in {"3", "6"}, auto \in SUBSET Inputs :
        /\ pmeter = NewEngine(kind, _ERROR_CODES_MAP)
        /\ dev = [NewMeter("reset", crest) EXCEPT !.auto = auto]
        /\ now = 0
        /\ req = NoRequest
        /\ last = NoCall(pmeter, dev)
        /\ InUse

NextRange == \E c \in RangeCalls(pmeter.kind), fault \in Faults : Command(c.cmd, c.arg, fault)

SpecRange == InitRange /\ [][NextRange]_vars

----------------------------------------------------------------------------
(* Reading data: the caller has decided on the items to read; it           *)
(* configures them once, waits for the meter to update them and reads      *)
(* them, before or after that, and changes the interval in between, while  *)
(* the clock advances.                                                     *)

\* The clock runs from 0 to MaxTime.
MaxTime == 2

Tick ==
    /\ now < MaxTime
    /\ now' = now + 1
    /\ UNCHANGED <<pmeter, dev, req, last>>
    /\ UNCHANGED hvars

\* The number of items an adapter reads at most.
MaxItems(kind) == IF kind = "wt210" THEN WT210_MAX_DATA_ITEMS ELSE _MAX_DATA_ITEMS

\* The lists of items tried: one item, the time stamp alone, an item twice
\* around it, the energy before another item and after the power, physical
\* items in the reverse of the meter's order, a list of the greatest length
\* and the same with the time stamp added, one item too long.
DataLists(kind) ==
    {<<"P">>, <<"T">>, <<"V", "T", "V">>, <<"J", "V">>, <<"P", "T", "I", "J">>,
     SubSeq(_populate_data_items(kind).items, 1, MaxItems(kind)),
     SubSeq(_populate_data_items(kind).items, 1, MaxItems(kind)) \o <<"T">>}

\* The request that sets up the reading: the list of items in yokolibs, the
\* number of items in yokotools.
DataRequests(kind) ==
    IF kind = "old310"
    THEN {[cmd |-> PyStr("set-data-items-count"), arg |-> PyStr(a)] : a \in {"1", "2"}}
    ELSE {[cmd |-> PyStr("configure-data-items"),
           arg |-> PyList([i \in DOMAIN l |-> PyStr(l[i])])] : l \in DataLists(kind)}

DataCalls(kind) ==
    {[cmd |-> PyStr(c), arg |-> PyNone] :
        c \in IF kind = "old310" THEN {"wait-for-data-update", "get-data"}
                                 ELSE {"wait-data-update", "read-data"}}
    \cup {[cmd |-> PyStr("set-interval"), arg |-> PyStr("1")]}

InitData ==
    \E kind \in Kinds :
        /\ pmeter = NewEngine(kind, _ERROR_CODES_MAP)
        /\ dev = NewMeter("reset", "3")
        /\ now = 0
        /\ \E c \in DataRequests(kind), fault \in Faults :
                req = [pending |-> TRUE, cmd |-> c.cmd, arg |-> c.arg, fault |-> fault]
        /\ last = NoCall(pmeter, dev)
        /\ InUse

NextData ==
    \/ Issue
    \/ \E c \in DataCalls(pmeter.kind), fault \in Faults : Command(c.cmd, c.arg, fault)
    \/ Tick

SpecData == InitData /\ [][NextData]_vars

----------------------------------------------------------------------------
\* Calls on a link that fails once: in the first call made, at one of the
\* first MaxOps transport operations of the call.  The calls after it are
\* made on the healthy link, the meter raising a fault or not.
MaxOps == 7

Links == {[at |-> n, late |-> b] : n \in 1..MaxOps, b \in BOOLEAN}

\* The requests made: a query, the query of the integration state (which
\* the WT210 adapter emulates), the configuration of the data with a list
\* of one item, of two and of one too many, and the reading.
LinkLists(kind) ==
    {<<"P">>, <<"V", "I">>, SubSeq(_populate_data_items(kind).items, 1, MaxItems(kind)) \o <<"T">>}

LinkCalls(kind) ==
    {[cmd |-> PyStr(c), arg |-> PyNone] : c \in {"get-id", "get-integration-state"}}
    \cup IF kind = "old310"
         THEN {[cmd |-> PyStr("get-data"), arg |-> PyNone],
               [cmd |-> PyStr("set-data-items-count"), arg |-> PyStr("2")]}
         ELSE {[cmd |-> PyStr("read-data"), arg |-> PyNone]}
              \cup {[cmd |-> PyStr("configure-data-items"),
                     arg |-> PyList([i \in DOMAIN l |-> PyStr(l[i])])] : l \in LinkLists(kind)}

InitLink ==
    \E kind \in Kinds :
        /\ pmeter = NewEngine(kind, _ERROR_CODES_MAP)
        /\ dev = NewMeter("reset", "3")
        /\ now = 0
        /\ \E c \in LinkCalls(kind), link \in Links :
                req = [pending |-> TRUE, cmd |-> c.cmd, arg |-> c.arg, fault |-> 0, link |-> link]
        /\ last = NoCall(pmeter, dev)
        /\ InUse

\* The call the link fails in.
IssueOn ==
    /\ req.pending
    /\ LET r == Run(WorldOn(pmeter, dev, req.fault, now, req.link), req.cmd, req.arg)
       IN  /\ pmeter' = r.w.eng
           /\ dev' = r.w.dev
           /\ last' = [Outcome(req.cmd, req.arg, req.fault, r, pmeter, dev, Prev(last, dev)) EXCEPT
                            !.link = req.link]
    /\ req' = NoRequest
    /\ UNCHANGED now
    /\ UNCHANGED hvars

NextLink ==
    \/ IssueOn
    \/ /\ ~req.pending
       /\ \E c \in LinkCalls(pmeter.kind), fault \in Faults : Command(c.cmd, c.arg, fault)

SpecLink == InitLink /\ [][NextLink]_vars

----------------------------------------------------------------------------
(* Construction: the adapter is built on a meter in any state, with or     *)
(* without unread output of an earlier session, over a link that may fail  *)
(* once.  The constructor is recorded as the call "__init__"; a caller     *)
(* has the adapter only if that call returned.                             *)

MaxInitOps == 9
InitLinks == {NoLink} \cup {[at |-> n, late |-> b] : n \in 1..MaxInitOps, b \in BOOLEAN}
\* What an earlier session left unread in the meter.
Unread == {<<>>, <<"500.0E-03">>}
InitCalls == {[cmd |-> PyStr("get-id"), arg |-> PyNone],
              [cmd |-> PyStr("get-integration-state"), arg |-> PyNone]}

InitConstruct ==
    \E kind \in Kinds, integ \in {"reset", "start"}, unread \in Unread :
        /\ pmeter = [NewEngine(kind, _ERROR_CODES_MAP) EXCEPT !.pmtype = ""]
        /\ dev = [NewMeter(integ, "3") EXCEPT !.outq = unread]
        /\ now = 0
        /\ \E fault \in Faults, link \in InitLinks :
                req = [pending |-> TRUE, cmd |-> PyStr("__init__"), arg |-> PyNone,
                       fault |-> fault, link |-> link]
        /\ last = NoCall(pmeter, dev)
        /\ InUse

\* The constructor, from the entry to the return or the exception.
Constructor ==
    /\ req.pending
    /\ LET r == Construct(WorldOn(pmeter, dev, req.fault, now, req.link))
       IN  /\ pmeter' = r.w.eng
           /\ dev' = r.w.dev
           /\ last' = [Outcome(req.cmd, req.arg, req.fault, r, pmeter, dev, Prev(last, dev)) EXCEPT
                            !.link = req.link]
    /\ req' = NoRequest
    /\ UNCHANGED now
    /\ UNCHANGED hvars

Constructed(l) == l.called /\ l.cmd = PyStr("__init__")

NextConstruct ==
    \/ Constructor
    \/ /\ ~req.pending
       /\ Constructed(last) => last.exc = ""
       /\ \E c \in InitCalls : Command(c.cmd, c.arg, 0)

SpecConstruct == InitConstruct /\ [][NextConstruct]_vars

----------------------------------------------------------------------------
(* Identification: the adapter is built on a meter that identifies itself  *)
(* in any way, over a link that does not fail.                             *)

\* Replies to the identification query: those of the two families, of
\* other models, with and without a comma, in either case, and none.
IdReplies ==
    {OwnId, "YOKOGAWA,WT310,0,F1.03", "YOKOGAWA,760401,0,F1.03", "YOKOGAWA,WT333E,0,F1.03",
     "YOKOGAWA, wt330 ,0", "WT310", "WT210", "WT210,1", "WT310,1", "WT3x", "wt310,0", "JUNK",
     "X", "", ",", "A,B", "WT"}

InitIdentify ==
    \E kind \in {"wt310", "wt210"}, integ \in {"reset", "start"}, idn \in IdReplies :
        /\ pmeter = [NewEngine(kind, _ERROR_CODES_MAP) EXCEPT !.pmtype = ""]
        /\ dev = [NewMeter(integ, "3") EXCEPT !.idn = idn]
        /\ now = 0
        /\ \E fault \in Faults :
                req = [pending |-> TRUE, cmd |-> PyStr("__init__"), arg |-> PyNone,
                       fault |-> fault, link |-> NoLink]
        /\ last = NoCall(pmeter, dev)
        /\ InUse

NextIdentify ==
    \/ Constructor
    \/ /\ ~req.pending
       /\ Constructed(last) /\ last.exc = ""
       /\ Command(PyStr("get-id"), PyNone, 0)

SpecIdentify == InitIdentify /\ [][NextIdentify]_vars

----------------------------------------------------------------------------
(* The status check as a function of the reply: the meter answers the     *)
(* status query with any line.                                             *)

StatusReplies ==
    {OwnId, "0", "813", "", "junk", ",", "abc,def", ",x", "0,\"No error\"", " 0 ,x", "0x10,x",
     "813,\"Not allowed\"", "0.0,x", "1e2,x"}

ReplyCalls ==
    {[cmd |-> PyStr("get-id"), arg |-> PyNone],
     [cmd |-> PyStr("set-crest-factor"), arg |-> PyStr("6")],
     [cmd |-> PyStr("start-integration"), arg |-> PyNone],
     [cmd |-> PyStr("set-line-filter"), arg |-> PyStr("x")]}

InitReply ==
    \E kind \in Kinds, integ \in {"reset", "start"}, stat \in StatusReplies :
        /\ pmeter = NewEngine(kind, _ERROR_CODES_MAP)
        /\ dev = [NewMeter(integ, "3") EXCEPT !.stat = stat]
        /\ now = 0
        /\ req = NoRequest
        /\ last = NoCall(pmeter, dev)
        /\ InUse

NextReply == \E c \in ReplyCalls : ~last.called /\ Command(c.cmd, c.arg, 0)

SpecReply == InitReply /\ [][NextReply]_vars

----------------------------------------------------------------------------
(* Several adapters in one process: each is built on a meter of its own    *)
(* and used through command().                                             *)

MaxAdapters == 2

\* The tables an adapter refers to: YokoBase.__init__ and the populate
\* methods assign the objects of the module to self.commands,
\* self._data_items and self._errors_map.
Tables(m) == [commands |-> m.COMMANDS, data_items |-> m.DATA_ITEMS, errors_map |-> m.ERROR_CODES_MAP]

\* self.commands as command() reads it: the names and their choices.
PublicTable(cmds) ==
    [c \in DOMAIN cmds |-> IF cmds[c].choices.st = "tuple" THEN cmds[c].choices.l ELSE <<>>]

\* The world of a call through the adapter 'a': its private descriptors,
\* which are its own, and the public table and error map of the module.
WorldOf(m, a) ==
    [World([a.eng EXCEPT !.errors_map = m.ERROR_CODES_MAP], a.dev, 0, now) EXCEPT
        !.choices = PublicTable(m.COMMANDS)]

\* The calls made through an adapter: of commands whose choices no
\* adapter tells from those of another.
SharedCalls ==
    {[cmd |-> PyStr("get-id"), arg |-> PyNone], [cmd |-> PyStr("get-keys-locking"), arg |-> PyNone],
     [cmd |-> PyStr("set-keys-locking"), arg |-> PyStr("on")],
     [cmd |-> PyStr("set-line-filter"), arg |-> PyStr("on")],
     [cmd |-> PyStr("bogus"), arg |-> PyNone]}

InitShared ==
    /\ pmeter = NewEngine("wt310", _ERROR_CODES_MAP)
    /\ dev = NewMeter("reset", "3")
    /\ now = 0
    /\ req = NoRequest
    /\ last = NoCall(pmeter, dev)
    /\ InUse

\* An adapter of 'kind' is constructed on a meter of that family.
Build(kind, integ) ==
    /\ Len(py.adapters) < MaxAdapters
    /\ LET m == Populated(py, kind)
           e == [NewEngine(kind, m.ERROR_CODES_MAP) EXCEPT !.pmtype = ""]
           d == NewMeter(integ, "3")
           r == Construct(World(e, d, 0, now))
       IN  /\ py' = [m EXCEPT !.adapters = IF r.exc # "" THEN @
                                           ELSE Append(@, [kind |-> kind, eng |-> r.w.eng,
                                                           dev |-> r.w.dev, built |-> Tables(m)]),
                              !.used = 0]
           /\ pmeter' = r.w.eng
           /\ dev' = r.w.dev
           /\ last' = Outcome(PyStr("__init__"), PyNone, 0, r, e, d, NoPrev)
    /\ UNCHANGED <<now, req, transport, sys, threads>>

\* One command() call through the i-th adapter.
Use(i, cmd, arg) ==
    /\ i \in DOMAIN py.adapters
    /\ LET w == WorldOf(py, py.adapters[i])
           r == command(w, cmd, arg)
       IN  /\ py' = [py EXCEPT !.adapters[i].eng = [r.w.eng EXCEPT !.errors_map = py.adapters[i].eng.errors_map],
                               !.adapters[i].dev = r.w.dev, !.used = i]
           /\ pmeter' = r.w.eng
           /\ dev' = r.w.dev
           /\ last' = Outcome(cmd, arg, 0, r, w.eng, w.dev, NoPrev)
    /\ UNCHANGED <<now, req, transport, sys, threads>>

NextShared ==
    \/ \E kind \in {"wt310", "wt210"}, integ \in {"reset", "start"} : Build(kind, integ)
    \/ \E i \in 1..MaxAdapters, c \in SharedCalls : Use(i, c.cmd, c.arg)

SpecShared == InitShared /\ [][NextShared]_vars

----------------------------------------------------------------------------
(* Opening: Transport(devnode, baudrate) on a node of any kind.            *)

\* No engine takes part in the behaviours of the transport alone.
NoEngine ==
    /\ pmeter = NewEngine("wt310", _ERROR_CODES_MAP)
    /\ dev = NewMeter("reset", "3")
    /\ now = 0
    /\ req = NoRequest
    /\ last = NoCall(pmeter, dev)
    /\ py = NoPy

FirstFd == 3
NodeEnvs ==
    [exists : BOOLEAN, stat_ok : BOOLEAN, chr : BOOLEAN, open_ok : BOOLEAN,
     ioctl : {"ok", "ENOTTY", "EIO"}, ser_new : BOOLEAN, ser_open : BOOLEAN, fd : {FirstFd}]
Nodes == {DevNode, "/dev/ttyUSB0"}
Bauds == {PyNone, PyInt(9600), PyInt(19200), PyInt(1234), PyInt(0)}

InitOpen ==
    /\ NoEngine
    /\ transport = NoObject
    /\ threads = NoThreads
    /\ \E env \in NodeEnvs, devnode \in Nodes, baud \in Bauds :
            sys = [NoSys EXCEPT !.env = env, !.devnode = devnode, !.baud = baud]

\* Transport(devnode, baudrate=baud), from the call to the object or the
\* exception.
Open ==
    /\ ~sys.called
    /\ LET r == Transport_new(OsWorld(sys.env), sys.devnode, sys.baud)
       IN  /\ transport' = IF r.exc = "" THEN r.w.obj ELSE NoObject
           /\ sys' = [sys EXCEPT !.called = TRUE, !.exc = r.exc, !.msg = r.msg, !.log = r.w.log]
    /\ UNCHANGED <<evars, threads, py>>

NextOpen == Open

SpecOpen == InitOpen /\ [][NextOpen]_vars

----------------------------------------------------------------------------
(* Closing, one call after the other: an open transport of any class,      *)
(* with or without an engine built on it, is closed by its owner, by the   *)
(* engine and at last by its finalizer.  The system closes what it is      *)
(* asked to close.                                                         *)

MaxCalls == 4
Classes == {"usbtmc", "serial", "USBTMC"}
Fds == {FirstFd, FirstFd + 1}

\* An open transport of class 'name' on the descriptor 'fd'.
OpenObject(name, fd, held) ==
    [name |-> name, fd |-> IF name = "serial" THEN PyNone ELSE PyInt(fd),
     ser |-> IF name = "serial" THEN "open" ELSE "unset",
     baud |-> IF name = "serial" THEN PyInt(9600) ELSE PyNone, mutex |-> "", held |-> held]

InitClose ==
    /\ NoEngine
    /\ threads = NoThreads
    /\ \E name \in Classes, fd \in Fds, engine \in BOOLEAN :
            /\ transport = OpenObject(name, fd, engine)
            /\ sys = [NoSys EXCEPT !.called = TRUE, !.handle = "open", !.engine = engine]

CloseWorld(who) ==
    [obj |-> transport, sys |-> [sys EXCEPT !.log = Append(@, "call " \o who)], pc |-> "idle",
     exc |-> ""]

\* One call, from the entry to the return or the exception.
Called(c) ==
    /\ transport' = c.obj
    /\ sys' = [c.sys EXCEPT !.calls = @ + 1, !.exc = c.exc,
                            !.raised = IF c.pc = "done" THEN @ ELSE @ + 1]
    /\ UNCHANGED <<evars, threads, py>>

\* transport.close() by the owner of the transport
Close ==
    /\ ~sys.finalized /\ sys.calls < MaxCalls
    /\ Called(close(CloseWorld("close"), "caller"))

\* pmeter.close() by the owner of the engine
EngineClose ==
    /\ ~sys.finalized /\ sys.calls < MaxCalls /\ sys.engine
    /\ Called(YokoBase_close(CloseWorld("engine"), "caller"))

\* The finalizer: once, when nothing refers to the transport any more.
Finalize ==
    /\ ~sys.finalized /\ sys.calls < MaxCalls /\ ~transport.held
    /\ LET c == del(CloseWorld("finalizer"), "finalizer")
       IN  Called([c EXCEPT !.sys.finalized = TRUE])

NextClose == Close \/ EngineClose \/ Finalize

SpecClose == InitClose /\ [][NextClose]_vars

----------------------------------------------------------------------------
(* Closing, step by step: the owner and the finalizer close the same       *)
(* transport, each at its own pace; the first request to the system to     *)
(* close the handle may fail.                                              *)

Threads == {"caller", "finalizer"}
MaxRaceCalls == 2
Thread0 == [pc |-> "idle", exc |-> "", calls |-> 0]

InitRace ==
    /\ NoEngine
    /\ threads = [t \in Threads |-> Thread0]
    /\ \E name \in Classes, fd \in Fds, fail \in {0, 1} :
            /\ transport = OpenObject(name, fd, FALSE)
            /\ sys = [NoSys EXCEPT !.called = TRUE, !.handle = "open", !.fail = fail]

\* The thread 't' calls close(): the owner again and again, the finalizer
\* once.
Enter(t) ==
    /\ Ended(threads[t].pc)
    /\ threads[t].calls < (IF t = "finalizer" THEN 1 ELSE MaxRaceCalls)
    /\ threads' = [threads EXCEPT ![t] = [pc |-> CloseEntry(transport.name), exc |-> "",
                                          calls |-> @.calls + 1]]
    /\ sys' = [sys EXCEPT !.log = Append(@, "call " \o t), !.calls = @ + 1]
    /\ UNCHANGED <<evars, transport, py>>

\* The thread 't' makes its next step in close().
Step(t) ==
    /\ ~Ended(threads[t].pc)
    /\ LET c == [obj |-> transport, sys |-> sys, pc |-> threads[t].pc, exc |-> ""]
       IN  /\ ~Waiting(c)
           /\ transport' = CloseStep(c, t).obj
           /\ sys' = [CloseStep(c, t).sys EXCEPT
                          !.raised = IF CloseStep(c, t).pc = "raised" THEN @ + 1 ELSE @]
           /\ threads' = [threads EXCEPT ![t].pc = CloseStep(c, t).pc,
                                         ![t].exc = CloseStep(c, t).exc]
    /\ UNCHANGED <<evars, py>>

NextRace == \E t \in Threads : Enter(t) \/ Step(t)

SpecRace == InitRace /\ [][NextRace]_vars

----------------------------------------------------------------------------
(* Properties of command().  They are stated on 'last', the record of the  *)
(* latest call.                                                            *)

IsWrite(ev) == startswith(ev, "W ")
IsRead(ev) == startswith(ev, "R")
NoIO(tr) == \A i \in DOMAIN tr : ~IsWrite(tr[i]) /\ ~IsRead(tr[i])
NoWrite(tr) == \A i \in DOMAIN tr : ~IsWrite(tr[i])

\* The latest call was made on a yokolibs adapter / with a public name.
Yokolibs(l) == l.eng0.kind # "old310"
Public(l) == l.cmd.t = "str" /\ l.cmd.s \in PublicNames(l.eng0.kind)
Descr(l) == CommandsOf(l.eng0.kind)[l.cmd.s]

\* Every reply to a status query of the call reported code 0.
StatusOK(tr) ==
    \A i \in DOMAIN tr :
        (i > 1 /\ IsRead(tr[i]) /\ tr[i - 1] = "W :STAT:ERR?") => startswith(tr[i], "R 0,")

\* C1: for every name that is not a key of the public command table, be it
\* no string or a valid name with blanks or a suffix added, command(name, arg)
\* raises Error "bad command" and neither writes to nor reads from the
\* transport, whatever arg is.
C1_BadCommand ==
    (last.called /\ ~Public(last))
        => last.exc = "Error" /\ startswith(last.msg, "bad command") /\ NoIO(last.trace)

\* A name that is a tuple of two values ended in a TypeError instead.
C1_TupleName ==
    /\ last.called
    /\ last.cmd.t = "tuple" /\ Len(last.cmd.l) = 2
    /\ last.exc = "TypeError"
    /\ NoIO(last.trace)

\* The set-commands of yokolibs that declare an enumerated domain, and
\* whether the argument, as command() coerces it, is in the domain 'D'.
SetWithDomain(l) ==
    /\ l.called /\ Yokolibs(l) /\ Public(l)
    /\ startswith(l.cmd.s, "set-")
    /\ Domain(l.eng0.kind, l.cmd.s) # <<>>

ArgInDomain(a, D) ==
    CASE a.t = "str" -> a.s \in D
      [] a.t = "list" -> \A i \in DOMAIN a.l : a.l[i].s \in D
      [] OTHER -> FALSE

\* The value ErrorBadArgument names: the argument, or the first element of
\* the list that is not in the domain.
Offending(a, D) ==
    IF a.t = "list" THEN a.l[CHOOSE i \in DOMAIN a.l : a.l[i].s \notin D
                                    /\ \A j \in 1..(i - 1) : a.l[j].s \in D]
    ELSE a

Refused(l, a, D) ==
    /\ l.exc = "ErrorBadArgument"
    /\ Contains(l.msg, "'" \o ToStr(Offending(a, D)) \o "'")
    /\ Contains(l.msg, "'" \o l.cmd.s \o "'")
    /\ NoWrite(l.trace)

C2_Holds(l, a, D) ==
    /\ ~ArgInDomain(a, D) => Refused(l, a, D)
    /\ (ArgInDomain(a, D) /\ StatusOK(l.trace)) => l.exc = ""

\* C2 as stated: a set-command with an enumerated domain D succeeds iff its
\* argument is in D (a list: iff every element is), the meter reporting
\* status 0; an argument outside D raises ErrorBadArgument naming the value
\* and the command, and nothing is written.
C2_SucceedsIffInDomain ==
    SetWithDomain(last)
        => C2_Holds(last, CoerceArg(last.arg), Range(Domain(last.eng0.kind, last.cmd.s)))

\* A range the handler ties to the other crest factor was refused, after
\* the auto range was switched off.
CrestExcluded(l) ==
    /\ l.cmd.s \in {"set-current-range", "set-voltage-range"}
    /\ l.exc = "Error"
    /\ Contains(l.msg, "is only available when crest factor is")

C2_Amended(l, a, D) ==
    /\ ~ArgInDomain(a, D) => Refused(l, a, D)
    /\ ArgInDomain(a, D) => l.exc # "ErrorBadArgument"
    /\ (ArgInDomain(a, D) /\ a.t = "str" /\ StatusOK(l.trace))
            => (l.exc = "" \/ (a.s \in Ends(l.eng0.kind, Domain(l.eng0.kind, l.cmd.s))
                               /\ CrestExcluded(l)))

\* C2, amended: an argument outside D raises ErrorBadArgument naming the
\* value and the command before anything is written, and an argument in D
\* passes the verification; a string in D then succeeds when the meter
\* reports status 0, except that the range handler refuses the ranges it
\* ties to one crest factor, with an Error, under the other one.
C2_DomainDecidesVerification ==
    SetWithDomain(last)
        => C2_Amended(last, CoerceArg(last.arg), Range(Domain(last.eng0.kind, last.cmd.s)))

\* A value of the domain was written to the meter and the call succeeded.
C2_AcceptedInDomain ==
    /\ SetWithDomain(last)
    /\ last.arg.t = "str" /\ last.arg.s \in Range(Domain(last.eng0.kind, last.cmd.s))
    /\ last.exc = ""
    /\ ~NoWrite(last.trace)

\* A range of the domain was refused for the crest factor, every status
\* the meter reported being 0.
C2_RangeRefusedForCrest ==
    /\ SetWithDomain(last)
    /\ ArgInDomain(CoerceArg(last.arg), Range(Domain(last.eng0.kind, last.cmd.s)))
    /\ StatusOK(last.trace)
    /\ CrestExcluded(last)

\* The messages of the two engines about an argument nobody asked for.
NoArgumentText(l) == IF Yokolibs(l) THEN "accepts no arguments" ELSE "does not need argument"

\* C3: for every command whose descriptor has has-argument = false,
\* command(name, arg) with an argument raises the Error about the argument
\* before any transport I/O; with no argument the argument check passes.
C3_NoArgumentAccepted ==
    (last.called /\ Public(last) /\ ~Descr(last).has_argument)
        => IF last.arg # PyNone
           THEN /\ last.exc = "Error"
                /\ Contains(last.msg, NoArgumentText(last))
                /\ NoIO(last.trace)
           ELSE /\ last.exc # "ErrorBadArgument"
                /\ ~Contains(last.msg, NoArgumentText(last))

\* A command that takes no argument was given one and refused it.
C3_ArgumentRefused ==
    /\ last.called /\ Public(last) /\ ~Descr(last).has_argument
    /\ last.arg = PyStr("x")
    /\ last.exc = "Error"
    /\ last.trace = <<"check">>

\* The steps of a call: its events, writes and reads without their text.
EventKind(ev) == IF IsWrite(ev) THEN "W" ELSE IF IsRead(ev) THEN "R" ELSE ev
Shape(tr) == [i \in DOMAIN tr |-> EventKind(tr[i])]
Opt(b, steps) == IF b THEN steps ELSE <<>>

\* The line of the first write of a call, and the text of its last read.
FirstWrite(tr) ==
    LET k == CHOOSE i \in DOMAIN tr : IsWrite(tr[i]) /\ \A j \in 1..(i - 1) : ~IsWrite(tr[j])
    IN  SubSeq(tr[k], 3, Len(tr[k]))
LastRead(tr) == SubSeq(tr[Len(tr)], 3, Len(tr[Len(tr)]))

\* The wire command of the latest call, and whether the command goes
\* straight to the wire: it has no handler function.
WireCommand(l) == IF Yokolibs(l) THEN Descr(l).raw ELSE CommandMapOf(l.eng0.kind)[l.cmd.s]
Plain(l) ==
    /\ l.called /\ Public(l)
    /\ IF Yokolibs(l) THEN Descr(l).func = "" ELSE WireCommand(l) # ""

\* Verification, the input tweaks of an argument, the request, the response
\* and its tweaks if the command has one, and the status query.
PlainSteps(l) ==
    <<"check">> \o Opt(l.arg # PyNone, <<"in">>) \o <<"W">>
        \o Opt(Descr(l).has_response, <<"R", "out">>) \o <<"W", "R">>

\* The same with the query of the integration state, a command of its own,
\* that yokotools makes for a command with a state check.
StateCheckSteps == <<"check", "W", "R", "out", "W", "R">>
CheckedSteps(l) ==
    <<"check">> \o Opt(l.arg # PyNone, <<"in">>)
        \o Opt(~Yokolibs(l) /\ l.cmd.s \in DOMAIN yt_state_checks, StateCheckSteps) \o <<"W">>
        \o Opt(Descr(l).has_response, <<"R", "out">>) \o <<"W", "R">>

\* The request of the command is on the wire right before the last steps,
\* and the last write is the status query.
WireOrder(l, n) ==
    /\ startswith(l.trace[n - (IF Descr(l).has_response THEN 4 ELSE 2)], "W " \o WireCommand(l))
    /\ l.trace[n - 1] = "W :STAT:ERR?"

\* C4 as stated: a successful call of a command without a handler verifies
\* the argument, runs the input tweaks, writes the request once, reads once
\* iff the command has a response and runs the response tweaks, and queries
\* the status once, in this order and with nothing else; a refused argument
\* means no transport I/O.
C4_StepsInOrder ==
    /\ (Plain(last) /\ last.exc = "")
            => Shape(last.trace) = PlainSteps(last) /\ WireOrder(last, Len(last.trace))
    /\ (last.called /\ last.exc = "ErrorBadArgument" /\ Plain(last)) => NoIO(last.trace)

\* C4, amended: the same, except that yokotools queries the integration
\* state, itself a whole command with its status query, between the input
\* tweaks and the request of a command with a state check.
C4_StepsWithStateCheck ==
    /\ (Plain(last) /\ last.exc = "")
            => Shape(last.trace) = CheckedSteps(last) /\ WireOrder(last, Len(last.trace))
    /\ (last.called /\ last.exc = "ErrorBadArgument" /\ Plain(last)) => NoIO(last.trace)

\* A command with an argument and no response went through its steps.
C4_SetCommandDone ==
    /\ Plain(last) /\ Yokolibs(last) /\ last.exc = ""
    /\ last.cmd.s = "set-integration-timer"
    /\ Shape(last.trace) = <<"check", "in", "W", "W", "R">>

\* The call made one wire request, that of its command, and read the
\* status after it.
StatusChecked(l) ==
    /\ l.called /\ Yokolibs(l) /\ Public(l)
    /\ Len(l.trace) >= 2
    /\ l.trace[Len(l.trace) - 1] = "W :STAT:ERR?" /\ startswith(l.trace[Len(l.trace)], "R ")
    /\ WireCommand(l) # "" /\ startswith(FirstWrite(l.trace), WireCommand(l))
    /\ Cardinality({i \in DOMAIN l.trace : l.trace[i] = "W :STAT:ERR?"}) = 1

\* The code of a status reply.
StatusCode(text) == ParseInt(split1(text, ",")[1])
Unmapped(l, code) == code.ok /\ code.n # 0 /\ code.n \notin DOMAIN l.eng0.errors_map

\* C5 as stated: after the request of a status-checked command, status 0
\* makes command() return normally, and a nonzero status that is not in the
\* error map makes it raise Error with a message that contains the command
\* name, its argument and the raw status text of the meter.
C5_StatusDecides ==
    StatusChecked(last)
        => /\ StatusCode(LastRead(last.trace)).n = 0 => last.exc = ""
           /\ Unmapped(last, StatusCode(LastRead(last.trace)))
                => /\ last.exc = "Error"
                   /\ Contains(last.msg, last.cmd.s)
                   /\ last.arg # PyNone => Contains(last.msg, ToStr(last.arg))
                   /\ Contains(last.msg, LastRead(last.trace))

\* The message of a failed status check: the command, the argument as it
\* went over the wire, and the status reply.
FailureText(l) ==
    "command '" \o l.cmd.s
        \o SubSeq(FirstWrite(l.trace), Len(WireCommand(l)) + 1, Len(FirstWrite(l.trace)))
        \o "' failed:\n" \o LastRead(l.trace)

\* C5, amended: status 0 makes command() return normally, and a nonzero
\* status that is not in the error map makes it raise Error with the
\* command name, the argument as the input tweaks left it and the raw
\* status text of the meter.
C5_StatusDecidesTweaked ==
    StatusChecked(last)
        => /\ StatusCode(LastRead(last.trace)).n = 0 => last.exc = ""
           /\ Unmapped(last, StatusCode(LastRead(last.trace)))
                => last.exc = "Error" /\ last.msg = FailureText(last)

\* The meter refused a timer written as hours, minutes and seconds.
C5_TimerRefused ==
    /\ StatusChecked(last)
    /\ last.cmd.s = "set-integration-timer" /\ last.arg = PyStr("100")
    /\ last.exc = "Error"
    /\ Contains(last.msg, "set-integration-timer 0,1,40")
    /\ Contains(last.msg, "102,")

\* What the resolver bound to the status code of the call returns.
Resolved(l, code) ==
    CallResolver(l.eng0.errors_map[code.n].func, l.cmd.s, l.arg, code.n,
                 split1(LastRead(l.trace), ",")[2])
Bound(l, code) ==
    code.ok /\ code.n # 0 /\ code.n \in DOMAIN l.eng0.errors_map
        /\ l.eng0.errors_map[code.n].func # ""

C6_Resolver(l, code) ==
    Bound(l, code)
        => /\ Resolved(l, code) = PyNone => l.exc = ""
           /\ (Resolved(l, code).t = "str" /\ Resolved(l, code).s # "")
                => l.exc = "Error" /\ Contains(l.msg, Resolved(l, code).s)

\* C6: for a nonzero status code that the error map binds to a resolver,
\* command() returns normally if the resolver returns None, and raises
\* Error with the string in its message if the resolver returns a string
\* that is not empty.
C6_ResolverDecides == StatusChecked(last) => C6_Resolver(last, StatusCode(LastRead(last.trace)))

\* A resolver handled a status of the meter, and the call returned.
C6_HandledByResolver ==
    /\ StatusChecked(last)
    /\ StatusCode(LastRead(last.trace)).n = DevCode("other")
    /\ last.eng0.errors_map[DevCode("other")].func = "returns_none"
    /\ last.exc = ""

IntegrationWire(cmd) ==
    CASE cmd = "start-integration" -> ":INTEG:STAR"
      [] cmd = "stop-integration" -> ":INTEG:STOP"
      [] OTHER -> ":INTEG:RES"
AllowedFrom(cmd) ==
    CASE cmd = "start-integration" -> {"reset", "stop"}
      [] cmd = "stop-integration" -> {"start"}
      [] OTHER -> {"reset", "stop", "timeup", "error"}
LeadsTo(cmd) ==
    CASE cmd = "start-integration" -> "start"
      [] cmd = "stop-integration" -> "stop"
      [] OTHER -> "reset"
Written(l, cmd) == \E i \in DOMAIN l.trace : startswith(l.trace[i], "W " \o IntegrationWire(cmd))

\* C8 as stated: the wire command of start-integration is written to the
\* meter only in the integration states reset and stop, that of
\* stop-integration only in start, and that of reset-integration only in
\* reset, stop, timeup and error.
C8_WrittenOnlyWhenAllowed ==
    \A cmd \in IntegrationCommands : Written(last, cmd) => last.dev0.integ \in AllowedFrom(cmd)

\* C8, amended: yokotools writes the wire command of an integration command
\* only in the states the command is allowed in; yokolibs writes it in any
\* state and leaves the decision to the meter; either way the integration
\* state changes only from an allowed state, to the state of the command.
C8_ChangedOnlyWhenAllowed ==
    /\ ~Yokolibs(last) => \A cmd \in IntegrationCommands :
                            Written(last, cmd) => last.dev0.integ \in AllowedFrom(cmd)
    /\ (last.called /\ last.dev1.integ # last.dev0.integ)
            => \E cmd \in IntegrationCommands :
                    /\ Written(last, cmd)
                    /\ last.dev0.integ \in AllowedFrom(cmd)
                    /\ last.dev1.integ = LeadsTo(cmd)

\* yokotools started the integration from the stop state.
C8_StartWrittenFromStop ==
    /\ last.called /\ ~Yokolibs(last)
    /\ Written(last, "start-integration")
    /\ last.dev0.integ = "stop" /\ last.dev1.integ = "start"

\* An integration command requested in a state it is not allowed in, the
\* meter having no fault of its own.
Disallowed(l) ==
    /\ l.called /\ l.cmd.t = "str" /\ l.cmd.s \in IntegrationCommands
    /\ l.arg = PyNone /\ l.fault = 0
    /\ l.dev0.integ \notin AllowedFrom(l.cmd.s)

CitesAll(l) ==
    /\ Contains(l.msg, "\"" \o l.dev0.integ \o "\"")
    /\ Contains(l.msg, "\"" \o l.cmd.s \o "\"")
    /\ \A st \in AllowedFrom(l.cmd.s) : Contains(l.msg, st)

\* C9 as stated: an integration command requested in a state outside its
\* allowed states raises an Error that cites the current state, the command
\* and the allowed states, and leaves the integration state as it is.
C9_RefusalCitesAll ==
    Disallowed(last)
        => /\ last.exc = "Error"
           /\ Contains(last.msg, last.dev0.integ)
           /\ Contains(last.msg, last.cmd.s)
           /\ \A st \in AllowedFrom(last.cmd.s) : Contains(last.msg, st)
           /\ last.dev1.integ = last.dev0.integ

\* What yokolibs says about the refusal of the meter: the message of its
\* resolver, or the status text of the meter for a code it has no entry for.
RefusalText(l) ==
    CASE l.cmd.s = "stop-integration" -> "it is not in the 'start' state"
      [] l.cmd.s = "reset-integration" -> "it cannot be changed to 'reset'"
      [] l.dev0.integ = "start" -> "integration is already in the 'start' state"
      [] OTHER -> LastRead(l.trace)

\* C9, amended: the command raises an Error that names the command and
\* leaves the integration state as it is; yokotools cites the current
\* state, the command and the allowed states, yokolibs gives the message
\* of its resolver for the status code of the meter, which for a start in
\* the start state says that the integration is already in that state.
C9_RefusalLeavesState ==
    Disallowed(last)
        => /\ last.exc = "Error"
           /\ Contains(last.msg, last.cmd.s)
           /\ last.dev1.integ = last.dev0.integ
           /\ IF Yokolibs(last) THEN Contains(last.msg, RefusalText(last)) ELSE CitesAll(last)

\* A start was requested while the integration was running, and refused.
C9_StartRefusedInStart ==
    /\ Disallowed(last) /\ Yokolibs(last)
    /\ last.cmd.s = "start-integration" /\ last.dev0.integ = "start"
    /\ last.exc = "Error"
    /\ last.dev1.integ = "start"

\* The latest call asked for the integration state right after the
\* integration command 'cmd' had succeeded in the state 'from'.
Followed(l, cmd, from) ==
    /\ l.called /\ l.cmd = PyStr("get-integration-state") /\ l.exc = ""
    /\ l.prev.called /\ l.prev.cmd = cmd /\ l.prev.integ0 = from

\* C10: from reset a successful start-integration makes
\* get-integration-state report start, from start a successful
\* stop-integration makes it report stop, from stop a successful
\* reset-integration makes it report exactly "reset", and from stop a
\* start-integration is accepted and makes it report start again.
C10_TransitionsObservable ==
    /\ Followed(last, "start-integration", "reset") => Contains(last.ret.s, "start")
    /\ Followed(last, "stop-integration", "start") => Contains(last.ret.s, "stop")
    /\ Followed(last, "reset-integration", "stop") => last.ret = PyStr("reset")
    /\ Followed(last, "start-integration", "stop") => Contains(last.ret.s, "start")
    /\ (last.called /\ last.cmd = PyStr("start-integration") /\ last.arg = PyNone
            /\ last.fault = 0 /\ last.dev0.integ = "stop") => last.exc = ""

\* The state was asked for after a start from stop, on the meter that
\* has no query for it.
C10_StartedAgain ==
    /\ Followed(last, "start-integration", "stop")
    /\ last.eng0.kind = "wt210"
    /\ last.ret = PyStr("start or stop")

----------------------------------------------------------------------------
(* Ranges and the crest factor.                                            *)

RangeCommands == {"set-current-range", "set-voltage-range"}

\* The lowest and the highest range a list declares, "auto" being none.
Lowest(c) == IF c[1] = "auto" THEN c[2] ELSE c[1]
Highest(c) == c[Len(c)]

\* The latest call asked a yokolibs adapter for the range 'v' of the list
\* of its command, the meter being at crest factor 'crest' and reporting
\* status 0 to every query.
RangeAsked(l, crest) ==
    /\ l.called /\ Yokolibs(l)
    /\ l.cmd.t = "str" /\ l.cmd.s \in RangeCommands
    /\ l.arg.t = "str"
    /\ l.dev0.crest = crest
    /\ StatusOK(l.trace)

\* A range value went to the meter.
RangeWritten(tr) == \E i \in DOMAIN tr : IsWrite(tr[i]) /\ Contains(tr[i], ":RANG ")

\* The call was refused with the Error that demands crest factor 'needed'.
CrestDemanded(l, needed) ==
    /\ l.exc = "Error"
    /\ Contains(l.msg, "is only available when crest factor is " \o needed)
    /\ ~RangeWritten(l.trace)

\* C11: for set-current-range and set-voltage-range, the lowest declared
\* range other than "auto" under crest factor "3" raises the Error that
\* demands crest factor "6", the highest declared range under crest factor
\* "6" raises the Error that demands crest factor "3", and in neither case
\* the range value is written to the meter.
C11_EndsRefused ==
    /\ (RangeAsked(last, "3")
            /\ last.arg.s = Lowest(Domain(last.eng0.kind, last.cmd.s)))
        => CrestDemanded(last, "6")
    /\ (RangeAsked(last, "6")
            /\ last.arg.s = Highest(Domain(last.eng0.kind, last.cmd.s)))
        => CrestDemanded(last, "3")

\* The lowest voltage range was written to the meter under crest factor "3".
C11_LowestVoltageWritten ==
    /\ RangeAsked(last, "3")
    /\ last.cmd.s = "set-voltage-range"
    /\ last.arg.s = Lowest(Domain(last.eng0.kind, "set-voltage-range"))
    /\ last.exc = ""
    /\ RangeWritten(last.trace)

\* The latest call asked a yokolibs adapter for the automatic range, the
\* meter reporting status 0 to every query.
AutoAsked(l) ==
    /\ l.called /\ Yokolibs(l)
    /\ l.cmd.t = "str" /\ l.cmd.s \in RangeCommands
    /\ l.arg = PyStr("auto")
    /\ StatusOK(l.trace)

\* The input a range command is about.
InputOf(cmd) == IF Contains(cmd, "current") THEN "CURR" ELSE "VOLT"

\* The flag of the automatic range of 'input' was written as "on".
AutoOnWritten(tr, input) ==
    \E i \in DOMAIN tr : IsWrite(tr[i]) /\ endswith(tr[i], ":" \o input \o ":AUTO on")

\* The latest call read a range right after the same range was set to
\* "auto".
ReadAfterAuto(l) ==
    /\ l.called /\ Yokolibs(l)
    /\ l.cmd.t = "str" /\ l.cmd.s \in {"get-current-range", "get-voltage-range"}
    /\ StatusOK(l.trace)
    /\ l.prev.called /\ l.prev.arg = PyStr("auto")
    /\ l.prev.cmd = Replace(l.cmd.s, "get-", "set-")

\* C12: for the current and for the voltage range, setting "auto" succeeds
\* under either crest factor and after any range, writes the flag of the
\* automatic range as "on" and no range value, and the range read next is
\* flagged as automatic.
C12_AutoAlwaysSet ==
    /\ AutoAsked(last)
        => /\ last.exc = ""
           /\ AutoOnWritten(last.trace, InputOf(last.cmd.s))
           /\ ~RangeWritten(last.trace)
           /\ InputOf(last.cmd.s) \in last.dev1.auto
    /\ ReadAfterAuto(last)
        => /\ last.exc = ""
           /\ last.ret.t = "str" /\ endswith(last.ret.s, " (auto)")

\* The automatic voltage range was asked for and refused as an argument
\* the command does not take, nothing being written.
C12_VoltageAutoRefused ==
    /\ AutoAsked(last)
    /\ last.cmd.s = "set-voltage-range"
    /\ last.exc = "ErrorBadArgument"
    /\ NoIO(last.trace)

\* The current range was read as automatic right after it was set to "auto".
C12_CurrentAutoRead ==
    /\ ReadAfterAuto(last)
    /\ last.cmd.s = "get-current-range"
    /\ last.exc = "" /\ last.ret.t = "str" /\ endswith(last.ret.s, " (auto)")

----------------------------------------------------------------------------
(* Properties of the data commands.                                        *)

VirtualItems == Range(_VDATA_ITEMS)

\* What read-data returns for a physical item: str(float()) of the meter's
\* value for it.
Measured(item) == FloatRepr(ParseFloat(DevQuantity(item)))

\* The latest call read the data on a yokolibs adapter with a configuration
\* in force, the meter reporting status 0 to every query of the call.
ReadInConf(l) ==
    /\ l.called /\ Yokolibs(l)
    /\ l.cmd = PyStr("read-data") /\ l.arg = PyNone
    /\ l.prev.conf.set
    /\ StatusOK(l.trace)

\* The values 'ret' answer the request for 'items': as many values as items,
\* each physical item's value at the position it was asked for at, and equal
\* values wherever an item was asked for twice.
Answers(ret, items) ==
    /\ ret.t = "list" /\ Len(ret.l) = Len(items)
    /\ \A i \in DOMAIN items :
            /\ ret.l[i].t = "str"
            /\ items[i] \notin VirtualItems => ret.l[i].s = Measured(items[i])
            /\ \A j \in DOMAIN items : items[j] = items[i] => ret.l[j] = ret.l[i]

\* C13: after configure-data-items succeeded with a list of 1 to max-items
\* supported items, physical or virtual and possibly repeated, every
\* read-data, after however many wait-data-update and read-data calls,
\* returns as many values as the list has items, in the order of the list,
\* with the same value at both positions of an item asked for twice.
C13_ReadFollowsRequest ==
    ReadInConf(last)
        => /\ last.exc = ""
           /\ Answers(last.ret, ItemNames(last.prev.conf.arg))

\* The WT210 adapter was configured to read the time stamp alone, which it
\* accepted, and the read-data that followed failed instead of returning the
\* one value.
C13_StampAloneUnread ==
    /\ ReadInConf(last)
    /\ last.eng0.kind = "wt210"
    /\ ItemNames(last.prev.conf.arg) = <<"T">>
    /\ last.exc = "TypeError"
    /\ last.ret = PyNone

\* The physical item read for a requested one: the power for the energy,
\* none for the time stamp.
PhysOf(item) == IF item = "J" THEN "P" ELSE item
PhysSet(items) == {PhysOf(items[i]) : i \in {j \in DOMAIN items : items[j] # "T"}}
FirstPos(items, x) == CHOOSE i \in DOMAIN items : PhysOf(items[i]) = x /\ \A j \in 1..(i - 1) : PhysOf(items[j]) # x
\* The k-th distinct physical item in the order of the request
KthPhys(items, k) ==
    CHOOSE x \in PhysSet(items) :
        Cardinality({y \in PhysSet(items) : FirstPos(items, y) <= FirstPos(items, x)}) = k

\* The name of an item on the wire
WireName(kind, item) == Get(_populate_data_items(kind).htop, item, item)

\* The writes of a call that begin with 'head', in order
WritesOf(tr, head) == SelectSeq(tr, LAMBDA ev : startswith(ev, "W " \o head))

\* The latest call configured a list of supported items no longer than the
\* adapter allows, on a yokolibs adapter, and succeeded.
Configured(l) ==
    /\ l.called /\ Yokolibs(l)
    /\ l.cmd = PyStr("configure-data-items") /\ l.arg.t = "list"
    /\ l.exc = ""

\* What the WT310 is told: the number of distinct physical items, unless
\* there is none, and for slot k the k-th of them.
SlotsCoalesced(tr, kind, items) ==
    /\ WritesOf(tr, ":NUM:NORM:NUM ")
         = IF PhysSet(items) = {} THEN <<>>
           ELSE <<"W :NUM:NORM:NUM " \o IntStr(Cardinality(PhysSet(items)))>>
    /\ WritesOf(tr, ":NUM:NORM:ITEM")
         = [k \in 1..Cardinality(PhysSet(items)) |->
                "W :NUM:NORM:ITEM" \o IntStr(k) \o " " \o WireName(kind, KthPhys(items, k))]

\* What the WT210 is told: each of its items once, on for the distinct
\* physical items of the request and off for the others.
SwitchesCoalesced(tr, kind, items) ==
    LET w == WritesOf(tr, ":MEAS:ITEM:")
    IN  /\ \A i, j \in DOMAIN w : HeadOf(ArgOf(w[i])) = HeadOf(ArgOf(w[j])) => i = j
        /\ {w[i] : i \in {j \in DOMAIN w : endswith(w[j], " On")}}
             = {"W :MEAS:ITEM:" \o WireName(kind, x) \o " On" : x \in PhysSet(items)}
        /\ \A i \in DOMAIN w : endswith(w[i], " On") \/ endswith(w[i], " Off")

TooMany(l) ==
    /\ l.called /\ Yokolibs(l)
    /\ l.cmd = PyStr("configure-data-items") /\ l.arg.t = "list"
    /\ Len(l.arg.l) > MaxItems(l.eng0.kind)

\* C15: configure-data-items with a list longer than the greatest number of
\* items of the model raises an Error, and neither a slot-setting nor a
\* count-setting command is sent to the meter.
C15_TooManyRefused ==
    TooMany(last)
        => /\ last.exc = "Error"
           /\ Contains(last.msg, "too many data items")
           /\ WritesOf(last.trace, ":NUM:NORM:") = <<>>
           /\ WritesOf(last.trace, ":MEAS:ITEM:") = <<>>
           /\ last.dev1 = last.dev0

\* A list one item too long was refused, nothing going to the meter.
C15_OneTooManyRefused ==
    /\ TooMany(last)
    /\ Len(last.arg.l) = MaxItems(last.eng0.kind) + 1
    /\ last.exc = "Error"
    /\ NoIO(last.trace)

\* The positions of 'item' in the configuration the latest call read under
Asked(l, item) == {i \in DOMAIN l.prev.conf.arg.l : l.prev.conf.arg.l[i] = PyStr(item)}

\* str() of the power the meter measures times the interval it updates
\* its data at when set to 'rate'
Energy(rate) == JoulesRepr(ParseFloat(DevQuantity("P")), ParseFloat(DevRateReply(rate)))

\* C16: the virtual item "J" that read-data returns is the parsed power
\* times the interval the meter is set to at the time of the read, also
\* when set-interval was executed between configure-data-items and
\* read-data.
C16_EnergyOfCurrentInterval ==
    (ReadInConf(last) /\ last.exc = "")
        => \A i \in Asked(last, "J") : last.ret.l[i] = PyStr(Energy(last.dev0.rate))

\* The energy was read with the meter set to an interval of 1 s and came
\* out as the power times the 0.5 s of the time of the configuration.
C16_EnergyOfOldInterval ==
    /\ ReadInConf(last) /\ last.exc = ""
    /\ last.dev0.rate = "1"
    /\ \E i \in Asked(last, "J") : last.ret.l[i] = PyStr(Energy("0.5"))
    /\ Energy("0.5") # Energy("1")

\* str() of the clock value 't'
Stamp(t) == FloatRepr([ok |-> TRUE, neg |-> FALSE, m |-> t, e |-> 0])

\* The latest call read the data under a configuration, some
\* wait-data-update having returned before it.
ReadAfterWait(l) == ReadInConf(l) /\ l.exc = "" /\ l.prev.waited >= 0

\* C17: the virtual item "T" that read-data returns is the value the local
\* clock had at the most recent wait-data-update call, not the one it has
\* at read-data or had at a command in between.
C17_StampOfLastWait ==
    ReadAfterWait(last)
        => \A i \in Asked(last, "T") : last.ret.l[i] = PyStr(Stamp(last.prev.waited))

\* The time stamp read was the clock value of the read, later than the one
\* of the latest wait.
C17_StampOfRead ==
    /\ ReadAfterWait(last)
    /\ last.at > last.prev.waited
    /\ \E i \in Asked(last, "T") : last.ret.l[i] = PyStr(Stamp(last.at))

\* a <= b for two floats that are not negative
FloatLeq(a, b) ==
    a.m * Pow10(a.e - (IF a.e < b.e THEN a.e ELSE b.e))
        <= b.m * Pow10(b.e - (IF a.e < b.e THEN a.e ELSE b.e))

TextLeq(s, u) == FloatLeq(ParseFloat(s), ParseFloat(u))

\* The latest call read the data under the configuration an earlier
\* read-data returned a time stamp under.
ReadAgain(l) == ReadInConf(l) /\ l.exc = "" /\ l.prev.tread # ""

\* C18: within one configuration of the data items, the local clock never
\* going back, the virtual item "T" of a read-data is not less than the one
\* of the read-data before it.
C18_StampsNonDecreasing ==
    ReadAgain(last) => \A i \in Asked(last, "T") : TextLeq(last.prev.tread, last.ret.l[i].s)

\* The time stamp was read twice under one configuration, the second one
\* later than the first.
C18_LaterStampRead ==
    /\ ReadAgain(last)
    /\ \E i \in Asked(last, "T") :
            /\ TextLeq(last.prev.tread, last.ret.l[i].s)
            /\ last.ret.l[i].s # last.prev.tread

----------------------------------------------------------------------------
(* Properties of the wait for a data update.                               *)

\* The wire requests of the wait: the read of the extended event status
\* register, the filter of its bit "upd" and the wait for that bit.
EESRRead == "W :STAT:EESR?"
UpdFilter == "W :STAT:FILT1 "
UpdWait == "W :COMM:WAIT 1"

\* Everything a call wrote to the transport, in order
Writes(tr) == SelectSeq(tr, IsWrite)

\* The latest call was a wait for a data update.
WaitCall(l) ==
    /\ l.called /\ l.arg = PyNone
    /\ l.cmd = PyStr(IF Yokolibs(l) THEN "wait-data-update" ELSE "wait-for-data-update")

\* The filter of "upd" when the k-th event of the call went out: what the
\* call wrote to it last, or what it was when the call began.
FilterAt(l, k) ==
    LET set == {j \in 1..(k - 1) : startswith(l.trace[j], UpdFilter)}
    IN  IF set = {} THEN l.dev0.filt
        ELSE lower(SubSeq(l.trace[CHOOSE j \in set : \A i \in set : i <= j],
                          Len(UpdFilter) + 1, Len(l.trace[CHOOSE j \in set : \A i \in set : i <= j])))

\* Whenever the call wrote the wait primitive, the falling-edge trigger on
\* "upd" was armed.
ArmedAtWait(l) ==
    \A k \in DOMAIN l.trace : l.trace[k] = UpdWait => FilterAt(l, k) = "fall"

\* The call read the register, then armed the trigger, then waited.
ReadArmWait(tr) ==
    \E i, j, k \in DOMAIN tr :
        /\ i < j /\ j < k
        /\ tr[i] = EESRRead /\ IsRead(tr[i + 1])
        /\ tr[j] = UpdFilter \o "fall"
        /\ tr[k] = UpdWait

\* C19 as stated: every wait for a data update reads the event status
\* register, arms the falling-edge trigger on "upd" and writes the wait
\* primitive, in this order, so the trigger is armed whenever the wait
\* primitive is written.
C19_WaitArmsTrigger ==
    WaitCall(last)
        => /\ last.exc = "" => ReadArmWait(last.trace)
           /\ ArmedAtWait(last)

\* C19, amended: the wait of yokotools reads the register, arms the trigger
\* and waits, in this order, so the trigger is armed whenever it writes the
\* wait primitive.  The wait of yokolibs reads the register and writes the
\* wait primitive and nothing else; it leaves the filter as it is, which
\* is armed once configure-data-items has succeeded.
C19_WaitReadsThenWaits ==
    WaitCall(last)
        => IF Yokolibs(last)
           THEN /\ Writes(last.trace) = <<EESRRead, UpdWait>>
                /\ last.dev1.filt = last.dev0.filt
                /\ last.prev.conf.set => ArmedAtWait(last)
           ELSE /\ last.exc = "" => ReadArmWait(last.trace)
                /\ ArmedAtWait(last)

\* yokolibs waited under a configuration, the trigger being armed.
C19_WaitedArmed ==
    /\ WaitCall(last) /\ Yokolibs(last)
    /\ last.prev.conf.set
    /\ last.exc = ""
    /\ UpdWait \in Range(last.trace) /\ ArmedAtWait(last)

\* yokolibs waited before any configuration: the wait primitive went out
\* with the filter of "upd" at "never".
C19_WaitedUnarmed ==
    /\ WaitCall(last) /\ Yokolibs(last)
    /\ last.dev0.filt = "never"
    /\ UpdWait \in Range(last.trace)

\* The query of the status of the meter
StatusQuery == "W :STAT:ERR?"

\* The wire requests of a call: what it wrote other than status queries.
IsRequest(ev) == IsWrite(ev) /\ ev # StatusQuery

\* The call asked for the status after each of its wire requests, before
\* the next one.
StatusAfterEachRequest(tr) ==
    \A i \in DOMAIN tr :
        IsRequest(tr[i])
            => \E j \in (i + 1)..Len(tr) :
                    /\ tr[j] = StatusQuery
                    /\ \A k \in (i + 1)..(j - 1) : ~IsRequest(tr[k])

\* The call wrote nothing but the read of the event register and the wait
\* primitive.
OnlyReadAndWait(tr) == \A i \in DOMAIN tr : IsWrite(tr[i]) => tr[i] \in {EESRRead, UpdWait}

\* The call returned or raised one of the errors of the tool, so that no
\* failure of the code cut it short.
EndedRegularly(l) == l.exc = "" \/ IsError(l.exc)

\* The latest call was a wait-data-update of yokolibs, with whatever
\* argument.
WaitAsked(l) == l.called /\ Yokolibs(l) /\ l.cmd = PyStr("wait-data-update")

----------------------------------------------------------------------------
(* Failures: what a call that raised leaves behind, and what the calls     *)
(* after a failure of the link see.                                        *)

\* The latest call raised.
Raised(l) == l.called /\ l.exc # ""

\* The latest call asked for the data to be configured.
ConfigureCall(l) == l.called /\ Yokolibs(l) /\ l.cmd = PyStr("configure-data-items")

\* C21: a call of command() that raises, whatever for, leaves the state of
\* the engine (the list of items to read, the indexes of the items, the
\* interval it keeps and what the adapter keeps of them) as it was before
\* the call.
C21_FailureLeavesState == Raised(last) => pmeter = last.eng0

\* With a configuration in force, a list of one item too many was refused
\* before anything was written, and the engine has it as the list of items
\* to read all the same.
C21_RefusedListKept ==
    /\ ConfigureCall(last)
    /\ last.prev.conf.set
    /\ last.exc = "Error" /\ startswith(last.msg, "too many data items")
    /\ NoIO(last.trace)
    /\ last.eng0.items_to_read.l = ItemNames(last.prev.conf.arg)
    /\ pmeter.items_to_read.l = ItemNames(last.arg)
    /\ pmeter.item_indexes = last.eng0.item_indexes

\* The latest call repeated the call before it, which a failure of the link
\* had brought down; the link and the meter were healthy this time.
Retry(l) ==
    /\ l.called /\ l.prev.broke.set
    /\ l.cmd = l.prev.broke.cmd /\ l.arg = l.prev.broke.arg
    /\ l.link = NoLink /\ l.fault = 0

\* The same call with no reply of an earlier call waiting to be read.
Fresh(l) == Run(World(l.eng0, [l.dev0 EXCEPT !.outq = <<>>], 0, l.at), l.cmd, l.arg)

\* C22: the command issued again after a failure of the link during its
\* write, its read or its status query ends as the meter answers this
\* request: it returns or raises what it does when no reply of the failed
\* call is left over, and it leaves none of its own replies unread.
C22_RetryIsSafe ==
    Retry(last)
        => /\ last.exc = Fresh(last).exc
           /\ last.ret = Fresh(last).v
           /\ dev.outq = <<>>

\* The read of the reply to get-id failed and the reply came in late; the
\* get-id issued again read that reply, took its own reply for the status
\* and failed on it, leaving the status reply unread.
C22_RetryReadsStale ==
    /\ Retry(last) /\ Yokolibs(last)
    /\ last.cmd = PyStr("get-id")
    /\ Len(last.dev0.outq) = 1 /\ startswith(last.dev0.outq[1], "YOKOGAWA")
    /\ last.exc = "ValueError"
    /\ Len(dev.outq) = 1 /\ startswith(dev.outq[1], "0,")

\* The positions of the trace at which the transport failed: a line that
\* could not be written, a read that returned nothing.
LinkFailures(tr) == {i \in DOMAIN tr : tr[i] = "R" \/ startswith(tr[i], "X ")}
LinkFailed(l) == l.called /\ LinkFailures(l.trace) # {}

\* The call did nothing after the failure of the transport.
EndedAtFailure(l) == LinkFailures(l.trace) = {Len(l.trace)}

InStatusQuery(l) ==
    \/ l.trace[Len(l.trace)] = "X :STAT:ERR?"
    \/ Len(l.trace) > 1 /\ l.trace[Len(l.trace)] = "R" /\ l.trace[Len(l.trace) - 1] = StatusQuery

----------------------------------------------------------------------------
(* Construction.                                                           *)

\* The clear of the constructor, and what its first and its second run do
\* on the link and the meter the constructor 'l' started with.
ClearOn(w) ==
    IF w.eng.kind = "old310" THEN yt__command(w, "clear", PyNone, FALSE)
    ELSE _command(w, "clear", PyNone, TRUE, TRUE)
FirstClear(l) == ClearOn(WorldOn(l.eng0, l.dev0, l.fault, l.at, l.link))
SecondClear(l) == ClearOn(FirstClear(l).w)

\* The positions of a trace where clear was sent or failed to be sent, and
\* those of the other requests that are no status query.
IsSent(ev) == startswith(ev, "W ") \/ startswith(ev, "X ")
SentLine(ev) == SubSeq(ev, 3, Len(ev))
ClearAttempts(tr) == {i \in DOMAIN tr : IsSent(tr[i]) /\ SentLine(tr[i]) = "\n*CLS"}
SettingsSent(tr) ==
    {i \in DOMAIN tr : IsSent(tr[i]) /\ SentLine(tr[i]) \notin {"\n*CLS", ":STAT:ERR?"}}
NothingResent(tr) ==
    \A i, j \in SettingsSent(tr) : i # j => SentLine(tr[i]) # SentLine(tr[j])

\* C24: the constructor attempts clear at most twice; if the first attempt
\* fails, the failure is ignored and clear is sent once more; if the second
\* attempt fails, that failure is what the constructor raises, nothing
\* being sent after it; and no other command of the initialization is sent
\* twice.
C24_ClearTwice ==
    Constructed(last) =>
        /\ Cardinality(ClearAttempts(last.trace)) <= 2
        /\ FirstClear(last).exc # "" => Cardinality(ClearAttempts(last.trace)) = 2
        /\ Cardinality(ClearAttempts(last.trace)) = 2 /\ SecondClear(last).exc # ""
                => last.exc = SecondClear(last).exc /\ last.trace = SecondClear(last).w.trace
        /\ NothingResent(last.trace)

\* The read of the status of the first clear fails on the link: a yokolibs
\* constructor raises the transport error without a second clear.
C24_FirstFailureAborts ==
    /\ Constructed(last) /\ Yokolibs(last) /\ last.link.at = 3
    /\ FirstClear(last).exc = "TransportError"
    /\ Cardinality(ClearAttempts(last.trace)) = 1
    /\ last.exc = "TransportError"
    /\ last.trace = FirstClear(last).w.trace


----------------------------------------------------------------------------
(* Opening a transport.                                                    *)

\* What the log of system calls shows of the attempts: each attempt starts
\* with the check that the node exists; the second one is the serial one.
AttemptStarts(log) == {i \in DOMAIN log : log[i] = "exists"}
SerialTried(log) == Cardinality(AttemptStarts(log)) = 2
UsbtmcProbed(log) == Len(log) >= 4 /\ SubSeq(log, 1, 4) = <<"exists", "stat", "open", "ioctl">>
\* The node cannot be used at all: it is missing, cannot be examined or
\* opened, or is no character device.
NodeUnusable(env) == ~env.exists \/ ~env.stat_ok \/ ~env.chr \/ ~env.open_ok
FatalAtOnce ==
    /\ sys.exc = "_BadInput"
    /\ ~SerialTried(sys.log)
    /\ sys.log \in {<<"exists">>, <<"exists", "stat">>, <<"exists", "stat", "open">>}
    /\ transport = NoObject

\* C25 as stated: the usbtmc transport is tried first and the serial one
\* only after the usbtmc one failed as a device of the wrong class; a
\* missing or inaccessible node is raised at once, the serial transport
\* never being tried.
C25_SerialAfterWrongClass ==
    sys.called =>
        /\ sys.log[1] = "exists"
        /\ SerialTried(sys.log) => UsbtmcProbed(sys.log) /\ sys.env.ioctl = "ENOTTY"
        /\ NodeUnusable(sys.env) => FatalAtOnce

\* C25 (amended): the usbtmc transport is tried first, and the serial one
\* exactly when the usbtmc one opened the node and its probe ioctl failed,
\* as a device of the wrong class or in any other way; a node that is
\* missing, cannot be examined or opened, or is no character device is
\* raised at once, the serial transport never being tried.
C25_SerialAfterFailedProbe ==
    sys.called =>
        /\ sys.log[1] = "exists"
        /\ SerialTried(sys.log) <=> UsbtmcProbed(sys.log) /\ sys.env.ioctl # "ok"
        /\ NodeUnusable(sys.env) => FatalAtOnce

\* The probe of a usbtmc node fails with an input/output error and the node
\* is opened as a serial port.
C25_SerialAfterIoError ==
    /\ sys.called /\ sys.env.ioctl = "EIO"
    /\ SerialTried(sys.log) /\ UsbtmcProbed(sys.log)
    /\ sys.exc = "" /\ transport.name = "serial" /\ transport.ser = "open"

\* A text with every run of whitespace made one blank.
NotBlank(chunk) == ~Blank(chunk)
Words(chunks) == SelectSeq(chunks, NotBlank)
RECURSIVE Spaced(_)
Spaced(words) ==
    IF words = <<>> THEN ""
    ELSE IF Len(words) = 1 THEN words[1]
    ELSE Spaced(SubSeq(words, 1, Len(words) \div 2)) \o " "
         \o Spaced(SubSeq(words, Len(words) \div 2 + 1, Len(words)))
Flat(text) == Spaced(Words(_split(_munge_whitespace(text))))

\* What each class does with the node on its own, and the classes that
\* fail without being fatal.
UsbtmcAlone == _USBTMC_init(OsWorld(sys.env), sys.devnode)
SerialAlone == _Serial_init(OsWorld(sys.env), sys.devnode, sys.baud)
NotFatal(r) == r.exc \in {"Exceptions.Error", "TransportError"}
UnknownText ==
    "unknown type of the device '" \o sys.devnode
    \o "'. Here is the log of all the attempts to recognize the device type."

\* C26: when the usbtmc and the serial transport both fail without being
\* fatal, Transport() raises one TransportError whose text is the heading
\* followed by one entry per transport, usbtmc first, each the name of the
\* transport and its own failure text (laid out in lines, the words as they
\* were); when a transport that is tried succeeds, nothing is raised and
\* the object of that transport is returned.
C26_AggregateNamesAll ==
    sys.called =>
        /\ NotFatal(UsbtmcAlone) /\ NotFatal(SerialAlone)
              => /\ sys.exc = "TransportError"
                 /\ transport = NoObject
                 /\ Flat(sys.msg) = Flat(UnknownText)
                                    \o " * " \o Flat("usbtmc: " \o UsbtmcAlone.msg)
                                    \o " * " \o Flat("serial: " \o SerialAlone.msg)
        /\ UsbtmcAlone.exc = "" => sys.exc = "" /\ transport = UsbtmcAlone.w.obj
        /\ NotFatal(UsbtmcAlone) /\ SerialAlone.exc = ""
              => sys.exc = "" /\ transport = SerialAlone.w.obj

\* Both fail, the serial one with a text that the log breaks over two lines.
C26_BothFailed ==
    /\ sys.called /\ sys.env.ioctl = "EIO" /\ sys.env.ser_new /\ ~sys.env.ser_open
    /\ sys.exc = "TransportError"
    /\ Contains(sys.msg, "\n * usbtmc: ioctl '0X5B02'")
    /\ Contains(sys.msg, "\n * serial: cannot initialize")
    /\ Contains(sys.msg, "could\n   not open port")


----------------------------------------------------------------------------
(* Closing a transport.                                                    *)

\* The requests to the system to close the handle, as positions of the log.
IsRelease(ev) == startswith(ev, "close ")
Releases(log) == {i \in DOMAIN log : IsRelease(log[i])}

\* C27: however often close() is called on a transport or on its engine,
\* by their owner or by the finalizer, the first call releases the handle,
\* the handle is released that once only, and every call returns normally.
C27_CloseIdempotent ==
    sys.calls >= 1 =>
        /\ Releases(sys.log) = {2}
        /\ sys.closes = 1 /\ sys.handle = "closed"
        /\ sys.raised = 0 /\ sys.exc = ""
        /\ transport.mutex = ""

\* The engine closed its transport, the owner closed it again and the
\* finalizer ran: one release, by the call of the engine.
C27_ClosedThreeTimes ==
    /\ sys.calls = 3 /\ sys.finalized /\ sys.engine /\ ~transport.held
    /\ sys.log = <<"call engine", "close " \o IntStr(FirstFd), "call close", "call finalizer">>
    /\ transport.name = "usbtmc" /\ transport.fd = PyNone
    /\ sys.closes = 1 /\ sys.raised = 0

\* A thread is between the test of the handle and the end of close().
InClose(pc) == pc \in {"test", "os_close", "ser_close", "clear", "release"}

\* C28: close() of a transport runs under a lock; when the owner and the
\* finalizer close the transport concurrently the system is asked at most
\* once to close the handle; and the lock is free whenever no thread is
\* in close(), also after a close that the system failed, so that a later
\* close() does not wait.
C28_LockedOnce ==
    /\ \A t \in Threads : InClose(threads[t].pc) => transport.mutex = t
    /\ sys.closes <= 1
    /\ (\A t \in Threads : Ended(threads[t].pc)) => transport.mutex = ""
    /\ \A t \in Threads :
            threads[t].pc = "acquire" /\ (\A u \in Threads \ {t} : Ended(threads[u].pc))
                => transport.mutex = ""

\* The close of the owner failed in the system and left the mutex taken;
\* the finalizer waits for it, and nobody is there to release it.
C28_FinalizerWaitsForEver ==
    /\ transport.name = "USBTMC"
    /\ threads["caller"].pc = "raised" /\ threads["caller"].exc = "OSError"
    /\ transport.mutex = "caller"
    /\ threads["finalizer"].pc = "acquire"
    /\ sys.closes = 1

----------------------------------------------------------------------------
(* The emulated integration state of the WT210.                            *)

\* The latest call asked a WT210 for the integration state and returned.
Emulated(l) ==
    /\ l.called /\ l.eng0.kind = "wt210"
    /\ l.cmd = PyStr("get-integration-state") /\ l.exc = ""

\* The probes of a call: the lines that set the line filter.
Probes(l) == SelectSeq(l.trace, LAMBDA ev : startswith(ev, "W :CONF:LFILT "))

\* The line filter as the call read it: the reply to the query, on or off.
FilterRead(l) == IF "R 1" \in Range(l.trace) THEN "on" ELSE "off"

\* The meter accepted the probe: the status it reported after it, which is
\* the last thing the call read, is 0.
ProbeAccepted(l) ==
    /\ Probes(l) # <<>>
    /\ startswith(l.trace[Len(l.trace)], "R 0,")

C30_ProbeRetried ==
    (Emulated(last) /\ last.ret = PyStr("start or stop")) => Len(Probes(last)) > 1

\* Right after a successful start-integration the emulation answered
\* "start or stop" on the first rejection: one probe, and no time spent.
C30_AnsweredOnFirstRejection ==
    /\ Followed(last, "start-integration", "reset")
    /\ Emulated(last) /\ last.ret = PyStr("start or stop")
    /\ Len(Probes(last)) = 1
    /\ last.at = now

----------------------------------------------------------------------------
(* The identification at construction.                                     *)

\* The reply of the meter to the identification query of the constructor.
IdReply(l) == IF l.dev0.idn = OwnId THEN DevId(Family(l.eng0)) ELSE l.dev0.idn

\* The model field of a reply: the second of its comma-separated fields.
HasModelField(ids) == Len(split(ids, ",")) >= 2
ModelField(ids) == lower(strip(split(ids, ",")[2]))

\* The reply is one of the family the adapter is for: for the WT310 its
\* model field begins with one of the adapter's model names; the WT210,
\* whose reply does not name the model, is told by a reply that does not
\* name another one.
MatchesFamily(kind, ids) ==
    IF kind = "wt310"
    THEN HasModelField(ids) /\ \E i \in DOMAIN WT310_pmtypes : startswith(ModelField(ids), WT310_pmtypes[i])
    ELSE WT210_match(ids) = "" \/ lower(WT210_match(ids)) = "wt210"

\* The constructor ran on a meter that raised no fault of its own.
Identified(l) == Constructed(l) /\ l.fault = 0 /\ l.dev0.outq = <<>>

\* C31: construction verifies the model: for every reply to the
\* identification query that does not match the family of the adapter,
\* replies without a comma-separated model field included, it raises the
\* Error of the engine and never an untyped exception, and for a matching
\* reply it completes.
C31_ModelVerified ==
    Identified(last) =>
        /\ last.exc \in {"", "Error"}
        /\ last.exc = "" <=> MatchesFamily(last.eng0.kind, IdReply(last))

\* A reply of two characters or more that has no comma ends the
\* constructor of the WT310 adapter in an IndexError.
C31_IndexErrorWithoutComma ==
    /\ Identified(last) /\ last.eng0.kind = "wt310"
    /\ ~HasModelField(IdReply(last)) /\ Len(IdReply(last)) >= 2
    /\ last.exc = "IndexError"

----------------------------------------------------------------------------
(* The tables of several adapters.                                         *)

\* C32: command tables, data-item sets and error maps are per adapter
\* instance and immutable after construction: what an adapter observes
\* is what its constructor built, whatever adapters are constructed or
\* used after it and whatever command() calls are made.
C32_TablesPerInstance ==
    \A i \in DOMAIN py.adapters : Tables(py) = py.adapters[i].built

\* A WT210 adapter was built, then a WT310 adapter, and a call made
\* through the first one found commands and data items in its tables
\* that its constructor had not put there.
C32_SecondAdapterChangedFirst ==
    /\ Len(py.adapters) >= 2 /\ py.used = 1
    /\ py.adapters[1].kind = "wt210" /\ py.adapters[2].kind = "wt310"
    /\ "get-keys-locking" \in DOMAIN Tables(py).commands \ DOMAIN py.adapters[1].built.commands
    /\ "Vmin" \in Range(Tables(py).data_items) \ Range(py.adapters[1].built.data_items)

\* C33: in every state after construction, adapters of both families
\* built in either order included, every name of the public command
\* table of an adapter has one private descriptor of that adapter with
\* definite has-response and has-argument flags, and command() on a
\* public name never fails on a missing descriptor.
C33_PublicResolves ==
    /\ \A i \in DOMAIN py.adapters : \A c \in DOMAIN Tables(py).commands :
            /\ c \in DOMAIN CommandsOf(py.adapters[i].kind)
            /\ CommandsOf(py.adapters[i].kind)[c].has_response \in BOOLEAN
            /\ CommandsOf(py.adapters[i].kind)[c].has_argument \in BOOLEAN
    /\ last.exc # "KeyError"

\* With adapters of both families built, a public name of the WT210
\* adapter had no descriptor and command() ended in a KeyError.
C33_KeyErrorOnPublicName ==
    /\ py.used \in DOMAIN py.adapters /\ py.adapters[py.used].kind = "wt210"
    /\ last.called /\ last.cmd = PyStr("get-keys-locking")
    /\ last.cmd.s \in DOMAIN Tables(py).commands
    /\ last.exc = "KeyError"

----------------------------------------------------------------------------
(* The status check and the reply to the status query.                     *)

\* The reply the call read to its status query, if it made one and the
\* meter is one that answers it in its own way.
StatusAsked(l) ==
    /\ l.called /\ l.dev0.stat # OwnId
    /\ \E i \in DOMAIN l.trace : l.trace[i] = "R " \o strip(l.dev0.stat)

\* The code field of a reply: the text before the first comma.
HasCodeField(reply) == Find(reply, ",") # 0
CodeField(reply) == SubSeq(reply, 1, Find(reply, ",") - 1)

\* The classes of the exceptions module of the engine.
TypedErrors == {"Error", "ErrorBadArgument", "ErrorBadResponse", "TransportError"}

\* C34: for every reply of the meter to the status query the status
\* check returns or raises one of the typed errors; a reply without a
\* comma-delimited code field raises ErrorBadResponse, and so does a
\* reply whose code field is no number, rather than an untyped exception.
C34_StatusReplyTyped ==
    (StatusAsked(last) /\ last.eng0.kind # "old310") =>
        /\ last.exc \in TypedErrors \cup {""}
        /\ ~HasCodeField(last.dev0.stat) => last.exc = "ErrorBadResponse"
        /\ (HasCodeField(last.dev0.stat) /\ ~ParseInt(CodeField(last.dev0.stat)).ok)
                => last.exc = "ErrorBadResponse"

\* The meter answered the status query of a yokolibs adapter with a code
\* field that is no number, and the call ended in a ValueError.
C34_ValueErrorOnCode ==
    /\ StatusAsked(last) /\ last.eng0.kind \in {"wt310", "wt210"}
    /\ HasCodeField(last.dev0.stat) /\ ~ParseInt(CodeField(last.dev0.stat)).ok
    /\ last.exc = "ValueError"

----------------------------------------------------------------------------
(* Explicit ranges.                                                        *)

\* C35: when set-current-range or set-voltage-range with an explicit
\* value raises the crest-factor Error, no setting of the meter has
\* changed: the flag of the automatic range and the range are what they
\* were before the call.
C35_RefusalChangesNothing ==
    (last.called /\ Yokolibs(last) /\ last.cmd.t = "str" /\ CrestExcluded(last)) =>
        /\ last.dev1.auto = last.dev0.auto
        /\ last.dev1.range = last.dev0.range

\* A range was refused for the crest factor on a meter that had the
\* range automatic: the call left the automatic range switched off.
C35_AutoLostOnRefusal ==
    /\ last.called /\ Yokolibs(last) /\ last.cmd.t = "str" /\ CrestExcluded(last)
    /\ InputOf(last.cmd.s) \in last.dev0.auto
    /\ InputOf(last.cmd.s) \notin last.dev1.auto
    /\ last.dev1.range = last.dev0.range

\* The latest call set a range to an explicit value and succeeded.
ExplicitSet(l) ==
    /\ l.called /\ Yokolibs(l)
    /\ l.cmd.t = "str" /\ l.cmd.s \in RangeCommands
    /\ l.arg.t = "str" /\ l.arg # PyStr("auto")
    /\ l.exc = ""

\* The latest call read a range right after the same range was set to an
\* explicit value.
ReadAfterExplicit(l) ==
    /\ l.called /\ Yokolibs(l)
    /\ l.cmd.t = "str" /\ l.cmd.s \in {"get-current-range", "get-voltage-range"}
    /\ l.fault = 0
    /\ l.prev.called /\ l.prev.arg # PyStr("auto")
    /\ l.prev.cmd = Replace(l.cmd.s, "get-", "set-")

\* In the trace the automatic range of 'input' is written as "off" and,
\* later, the range as 'v'.
OffThenRange(tr, input, v) ==
    \E i, j \in DOMAIN tr :
        /\ i < j
        /\ IsWrite(tr[i]) /\ endswith(tr[i], ":" \o input \o ":AUTO off")
        /\ IsWrite(tr[j]) /\ endswith(tr[j], ":" \o input \o ":RANG " \o v)
        /\ \A k \in DOMAIN tr : (IsWrite(tr[k]) /\ Contains(tr[k], ":RANG ")) => k = j

\* C36: setting a range to an explicit value v that is accepted under
\* the current crest factor writes the automatic range as "off" before
\* it writes the range, and the range read next is exactly v, without
\* the flag of the automatic range, whatever that flag was before.
C36_ExplicitRangeSet ==
    /\ ExplicitSet(last) =>
            /\ OffThenRange(last.trace, InputOf(last.cmd.s), last.arg.s)
            /\ InputOf(last.cmd.s) \notin last.dev1.auto
    /\ ReadAfterExplicit(last) =>
            /\ last.exc = ""
            /\ last.ret = last.prev.arg

\* The current range was set to a value below 0.01, which the meter
\* reports with an exponent, and read back as the value set.
C36_SmallRangeReadBack ==
    /\ ReadAfterExplicit(last)
    /\ last.cmd.s = "get-current-range"
    /\ last.prev.arg \in {PyStr("0.0025"), PyStr("0.005")}
    /\ last.ret = last.prev.arg

----------------------------------------------------------------------------
(* The baud rate of the serial transport.                                  *)

\* The serial transport was tried with the baud rate of the call.
SerialReached == sys.called /\ NotFatal(UsbtmcAlone) /\ sys.env.ser_new
PortOpened(log) == \E i \in DOMAIN log : log[i] = "serial.open"
AllowedBaud(baud) == baud \in {PyInt(b) : b \in _Serial_bauds}

\* C37: the serial transport takes a baud rate from 1200, 2400, 4800,
\* 9600, 19200, 38400 and 57600 only: without a baud rate, or with None,
\* the port gets 9600, and every other integer, 0 among them, is refused
\* with an error before the port is opened.
C37_BaudFromFixedSet ==
    SerialReached =>
        /\ sys.baud = PyNone =>
                PortOpened(sys.log) /\ SerialAlone.w.obj.baud = PyInt(9600)
        /\ AllowedBaud(sys.baud) =>
                PortOpened(sys.log) /\ SerialAlone.w.obj.baud = sys.baud
        /\ (sys.baud # PyNone /\ ~AllowedBaud(sys.baud)) =>
                sys.exc = "_BadInput" /\ ~PortOpened(sys.log)

\* The serial transport was made with the baud rate 0: the port was
\* opened with the baud rate 0 and the object returned.
C37_ZeroBaudOpened ==
    /\ SerialReached /\ sys.baud = PyInt(0)
    /\ sys.exc = "" /\ PortOpened(sys.log)
    /\ transport.name = "serial" /\ transport.ser = "open" /\ transport.baud = PyInt(0)

\* Every baud rate but 0 is dealt with as the list says.
C37_BaudButZero ==
    (SerialReached /\ sys.baud # PyInt(0)) =>
        /\ sys.baud = PyNone =>
                PortOpened(sys.log) /\ SerialAlone.w.obj.baud = PyInt(9600)
        /\ AllowedBaud(sys.baud) =>
                PortOpened(sys.log) /\ SerialAlone.w.obj.baud = sys.baud
        /\ (sys.baud # PyNone /\ ~AllowedBaud(sys.baud)) =>
                sys.exc = "_BadInput" /\ ~PortOpened(sys.log)

----------------------------------------------------------------------------
(* The integration timer: set-integration-timer with a number of seconds  *)
(* and get-integration-timer, on a meter that is not integrating.          *)

MaxTimer == 10000 * 60 * 60
TimerSeconds == {-1, 0, 59, 3661, MaxTimer - 1, MaxTimer, MaxTimer + 1}
TimerArgs ==
    {PyStr(IntStr(n)) : n \in TimerSeconds} \cup {PyInt(n) : n \in TimerSeconds}
    \cup {PyStr("abc"), PyStr("1.5")}
TimerCalls ==
    {[cmd |-> PyStr("set-integration-timer"), arg |-> a] : a \in TimerArgs}
    \cup {[cmd |-> PyStr("get-integration-timer"), arg |-> PyNone]}

InitTimer ==
    \E kind \in {"wt310", "wt210"}, crest \in {"3", "6"} :
        /\ pmeter = NewEngine(kind, _ERROR_CODES_MAP)
        /\ dev = NewMeter("reset", crest)
        /\ now = 0
        /\ req = NoRequest
        /\ last = NoCall(pmeter, dev)
        /\ InUse

NextTimer == \E c \in TimerCalls : Command(c.cmd, c.arg, 0)

SpecTimer == InitTimer /\ [][NextTimer]_vars

\* The call set the timer / read the timer.
TimerSet(l) == l.called /\ l.cmd = PyStr("set-integration-timer")
TimerGet(l) == l.called /\ l.cmd = PyStr("get-integration-timer")
\* The argument is a whole number of seconds from 0 to 10000 hours.
TimerInRange(arg) ==
    /\ arg.t \in {"str", "int"}
    /\ ParseInt(arg.s).ok /\ ParseInt(arg.s).n >= 0 /\ ParseInt(arg.s).n <= MaxTimer

\* C38: for every whole number of seconds n from 0 to 10000 hours,
\* set-integration-timer n is accepted and the get-integration-timer that
\* follows returns n in decimal; a value outside that range or one that is
\* not a whole number is refused with ErrorBadArgument without I/O.
C38_TimerRoundTrip ==
    [][/\ (TimerSet(last') /\ TimerInRange(last'.arg)) => last'.exc = ""
       /\ (TimerSet(last') /\ ~TimerInRange(last'.arg))
            => last'.exc = "ErrorBadArgument" /\ NoIO(last'.trace)
       /\ (TimerSet(last) /\ last.exc = "" /\ TimerGet(last'))
            => last'.exc = "" /\ last'.ret = PyStr(IntStr(ParseInt(last.arg.s).n))]_vars

\* A WT310 adapter sent a timer of -1 seconds to the meter, which
\* refused it.
C38_NegativeTimerSent ==
    /\ TimerSet(last) /\ last.eng0.kind = "wt310" /\ last.arg = PyStr("-1")
    /\ \E i \in DOMAIN last.trace : last.trace[i] = "W :INTEG:TIM -1,59,59"
    /\ last.exc = "Error"
    /\ last.dev1.timer = last.dev0.timer

\* The same for the WT210 adapter alone.
C38_TimerRoundTripWT210 ==
    [][last'.eng0.kind = "wt210" =>
       /\ (TimerSet(last') /\ TimerInRange(last'.arg)) => last'.exc = ""
       /\ (TimerSet(last') /\ ~TimerInRange(last'.arg))
            => last'.exc = "ErrorBadArgument" /\ NoIO(last'.trace)
       /\ (TimerSet(last) /\ last.exc = "" /\ TimerGet(last'))
            => last'.exc = "" /\ last'.ret = PyStr(IntStr(ParseInt(last.arg.s).n))]_vars

\* With the WT310 adapter only the refusal differs: a timer in the range
\* is accepted and read back.
C38_TimerAcceptedWT310 ==
    [][last'.eng0.kind = "wt310" =>
       /\ (TimerSet(last') /\ TimerInRange(last'.arg)) => last'.exc = ""
       /\ (TimerSet(last') /\ ~TimerInRange(last'.arg))
            => last'.exc \in {"Error", "ValueError"}
       /\ (TimerSet(last) /\ last.exc = "" /\ TimerGet(last'))
            => last'.exc = "" /\ last'.ret = PyStr(IntStr(ParseInt(last.arg.s).n))]_vars

\* The longest timer was set and read back.
C38_LongestTimerReadBack ==
    /\ TimerGet(last) /\ last.exc = ""
    /\ last.dev0.timer = "10000,0,0" /\ last.ret = PyStr("36000000")

----------------------------------------------------------------------------
(* Bringing the integration to the reset state: stop-integration, then     *)
(* reset-integration, then get-integration-state, as the tests do before   *)
(* they use a meter; between two such rounds the integration is started,   *)
(* and the meter may end a running integration by itself at any time.      *)

\* The commands that may be called after the call 'l'.
Due(l) ==
    IF l.called /\ l.cmd = PyStr("stop-integration") THEN {"reset-integration"}
    ELSE IF l.called /\ l.cmd = PyStr("reset-integration") THEN {"get-integration-state"}
    ELSE {"start-integration", "stop-integration"}

InitPrepare == Init

NextPrepare ==
    \/ \E cmd \in Due(last) : Command(PyStr(cmd), PyNone, 0)
    \/ IntegrationTimeUp
    \/ IntegrationError

SpecPrepare == InitPrepare /\ [][NextPrepare]_vars

\* C39: from every integration state of the meter, stop-integration and
\* then reset-integration, whatever Error either raises, leave the
\* integration in the reset state, and the get-integration-state after
\* them returns "reset".
C39_StopResetGivesReset ==
    /\ (last.called /\ last.cmd \in {PyStr("stop-integration"), PyStr("reset-integration")})
            => last.exc \in {"", "Error"}
    /\ (last.called /\ last.cmd = PyStr("stop-integration")) => last.dev1.integ # "start"
    /\ (last.called /\ last.cmd = PyStr("reset-integration")) => last.dev1.integ = "reset"
    /\ (last.called /\ last.cmd = PyStr("get-integration-state"))
            => /\ last.exc = "" /\ last.ret = PyStr("reset")
               /\ last.dev1.integ = "reset"

\* The meter had ended the integration by itself, stop-integration was
\* refused, reset-integration went through and the state read is "reset".
C39_ResetAfterTimeUp ==
    /\ last.called /\ last.cmd = PyStr("get-integration-state")
    /\ last.ret = PyStr("reset")
    /\ last.prev.called /\ last.prev.cmd = "reset-integration"
    /\ last.prev.integ0 = "timeup"

----------------------------------------------------------------------------
(* Requests and replies on the transport within one call.                  *)

\* The events of a trace: a query written, the output queue of the meter
\* cleared.
IsQuery(ev) == IsWrite(ev) /\ endswith(DevHead(SubSeq(ev, 3, Len(ev))), "?")
IsClear(ev) == IsWrite(ev) /\ DevHead(SubSeq(ev, 3, Len(ev))) = "*CLS"
\* The last of the first n events that cleared the queue (0: none).
LastClear(tr, n) ==
    IF \E i \in 1..n : IsClear(tr[i])
    THEN CHOOSE i \in 1..n : IsClear(tr[i]) /\ \A j \in (i + 1)..n : ~IsClear(tr[j])
    ELSE 0
\* The number of replies waiting to be read after the first n events of
\* the trace, with 'before' of them waiting at its start.
RepliesDue(tr, n, before) ==
    (IF LastClear(tr, n) = 0 THEN before ELSE 0)
    + Cardinality({i \in (LastClear(tr, n) + 1)..n : IsQuery(tr[i])})
    - Cardinality({i \in (LastClear(tr, n) + 1)..n : IsRead(tr[i])})
\* Every read of the trace was made with exactly one reply waiting, and
\* none waits at its end.
Paired(tr, before) ==
    /\ \A i \in DOMAIN tr : IsRead(tr[i]) => RepliesDue(tr, i - 1, before) = 1
    /\ RepliesDue(tr, Len(tr), before) = 0

\* C40: with one caller, no failure of the transport and a meter that
\* sends one reply per query, every read of a call is made with exactly
\* one reply waiting, and when the call has returned or raised an error
\* that is not of the transport, no reply is left unread.
C40_RepliesPaired ==
    last.called =>
        /\ Paired(last.trace, Len(last.dev0.outq))
        /\ last.dev0.outq = <<>> /\ last.dev1.outq = <<>>
        /\ last.exc # "TransportError"

\* A call that makes several queries read the reply of each before it
\* made the next.
C40_SeveralQueriesPaired ==
    /\ last.called /\ last.exc = ""
    /\ Cardinality({i \in DOMAIN last.trace : IsRead(last.trace[i])}) >= 3
    /\ Paired(last.trace, 0)
    /\ last.dev1.outq = <<>>

====
